---- MODULE Spec2Model ----
(***************************************************************************)
(* A model of the sales e-mail automation pipeline:                        *)
(*   parsing_utils.LLMResponseParser      (response parsing)               *)
(*   email_automation.TrueFoundryGateway  (the two LLM calls per chunk)    *)
(*   email_automation.EmailAutomationPipeline.process_csv_file             *)
(*                                                                         *)
(* Text is a sequence of tokens.  A token is one character that the        *)
(* parser's regular expressions and searches distinguish (a backtick, a    *)
(* whitespace character, a bracket, a comma, a prose character), the       *)
(* literal word "json", or one complete JSON literal other than an array   *)
(* (an object or a number), which json.loads turns into one value.         *)
(*                                                                         *)
(* A Python exception is a record [type, msg]; msg is the sequence of the  *)
(* pieces of its message (the f-string's literal parts and its             *)
(* interpolated values).  A call's outcome is [ok, value, exc, log], log   *)
(* being the logger.error lines the call wrote.                            *)
(***************************************************************************)
EXTENDS Integers, Sequences, FiniteSets, TLC

VARIABLES
  \* ---- LLMResponseParser.parse_research_json, called on a rendered response
  json_pc,             \* "idle", then "call" before the call, "returned" after it
  json_content,        \* the raw response text handed to the parser
  original_prospects,  \* the prospect list handed to the parser
  llm_array,           \* the array the response was rendered from (its literals)
  llm_style,           \* how the response was rendered around that array
  json_out,            \* the outcome of the call
  \* ---- LLMResponseParser._create_research_from_json, called on its own
  field_pc,            \* "idle", "call", "returned"
  field_obj,           \* the array element handed to it
  field_prospect,      \* the prospect handed to it
  field_out,           \* the outcome of the call
  \* ---- _clean_json_content and parse_research_json on arbitrary short texts
  clean_pc,            \* "idle", "clean", "plain", "wrapped", "done"
  clean_text,          \* the response text
  clean_prospects,     \* the prospect list
  clean_out,           \* the outcome of _clean_json_content(clean_text)
  plain_out,           \* the outcome of parse_research_json on clean_text
  wrapped_out,         \* the outcome of parse_research_json on the fenced text
  \* ---- LLMResponseParser.parse_email_response, called on a rendered response
  email_pc,            \* "idle", "call", "returned"
  email_content,       \* the raw response text handed to the parser
  research_in,         \* the research records handed to the parser
  llm_sections,        \* the form of each section the response was rendered from
  llm_layout,          \* the separators of the response and whether it has a preamble
  email_out,           \* the outcome of the call
  \* ---- EmailAutomationPipeline.process_csv_file, one run
  run_pc,              \* where the run stands: "idle" before the call, "research" and
                       \* "email" while that gateway call is in flight, "done", "failed"
  config,              \* self.config
  csv_file,            \* the input file: its header and the kind of each data row
  prospects,           \* what _read_csv_file returned
  chunk_start,         \* the loop variable i of process_csv_file
  research_results,    \* the research records of the chunk being processed
  all_research_results,
  all_email_results,
  gateway_calls,       \* history: the gateway calls started and ended, in order
  files,               \* the three output files
  result,              \* what process_csv_file returned
  run_error,           \* what process_csv_file raised
  phases,              \* history: the parts of process_csv_file the run went through
  \* ---- TrueFoundryGateway.call_research_llm and call_email_llm, called on their own
  gw_pc,               \* "idle", "call", "returned"
  gw_kind,             \* "research" or "email": which of the two calls
  gw_config,           \* self.config
  gw_arg,              \* the prospects, or the research records, handed to the call
  gw_reply,            \* what self.client.chat.completions.create does
  gw_out,              \* the outcome of the call
  gw_parser,           \* the outcome of the parser inside the call, NotCalled if not run
  \* ---- config.get_research_prompt and get_email_prompt inside the gateway calls
  prompt_pc,           \* "idle", "running"
  prompt_config,       \* use_prompt_templates and the two identifiers
  CACHED_RESEARCH_PROMPT,
  CACHED_EMAIL_PROMPT,
  CACHED_PROMPT_LAST_FETCHED,
  now,                 \* time.time()
  fetches,             \* history: the requests made to the template service
  system_prompts,      \* history: the system prompt of each gateway call, in order
  \* ---- PipelineConfig.from_env and EmailAutomationPipeline.__init__
  env_pc,              \* "idle", "start", "loaded"
  environ,             \* os.environ: the variables from_env reads
  from_env_out,        \* the outcome of PipelineConfig.from_env()
  gateway_built,       \* whether TrueFoundryGateway(config) was constructed
  \* ---- _save_research_csv followed by parse_research_csv
  csv_pc,              \* "idle", "save", "saved", "parsed"
  csv_records,         \* the ResearchOutput list that is written
  csv_written,         \* the text of the written file
  csv_parsed,          \* the outcome of parse_research_csv on that text
  \* ---- LLMResponseParser._parse_email_section, called on its own
  section_pc,          \* "idle", "call", "returned"
  section_parts,       \* what the section was rendered from: its labels and blocks
  section_text,        \* section
  section_out,         \* the EmailOutput it returned
  \* ---- LLMResponseParser.parse_research_csv on the CSV text of a response
  rows_pc,             \* "idle", "call", "returned"
  llm_rows,            \* what the text was rendered from: header and data rows
  rows_content,        \* csv_content
  rows_prospects,      \* original_prospects
  rows_out,            \* the outcome of parse_research_csv
  \* ---- unified_app.process_prospects, the handler of POST /process
  process_pc,          \* "idle", "request", "answered"
  upload,              \* the uploaded file: its name and what it holds
  process_env,         \* os.environ when the request arrives
  pipeline_outcome,    \* what pipeline.process_csv_file does when it is called
  unlink_fails,        \* whether os.unlink raises on the temporary file
  temp_file,           \* "none", "exists", "removed": the temporary file on disk
  http_response        \* the status code and detail the handler answered with

jsonVars == <<json_pc, json_content, original_prospects, llm_array, llm_style, json_out>>
fieldVars == <<field_pc, field_obj, field_prospect, field_out>>
cleanVars == <<clean_pc, clean_text, clean_prospects, clean_out, plain_out, wrapped_out>>
emailVars == <<email_pc, email_content, research_in, llm_sections, llm_layout, email_out>>

runVars == <<run_pc, config, csv_file, prospects, chunk_start, research_results,
             all_research_results, all_email_results, gateway_calls, files, result,
             run_error, phases>>

gwVars == <<gw_pc, gw_kind, gw_config, gw_arg, gw_reply, gw_out, gw_parser>>

promptVars == <<prompt_pc, prompt_config, CACHED_RESEARCH_PROMPT, CACHED_EMAIL_PROMPT,
                CACHED_PROMPT_LAST_FETCHED, now, fetches, system_prompts>>

envVars == <<env_pc, environ, from_env_out, gateway_built>>

csvVars == <<csv_pc, csv_records, csv_written, csv_parsed>>

sectionVars == <<section_pc, section_parts, section_text, section_out>>

rowsVars == <<rows_pc, llm_rows, rows_content, rows_prospects, rows_out>>

processVars == <<process_pc, upload, process_env, pipeline_outcome, unlink_fails,
                 temp_file, http_response>>

laterVars == <<sectionVars, rowsVars, processVars>>

vars == <<jsonVars, fieldVars, cleanVars, emailVars, runVars, gwVars, promptVars, envVars,
          csvVars, laterVars>>

-----------------------------------------------------------------------------
\* Bounds of the model.

\* The longest prospect list handed to a parser on its own.
MaxProspects == 3
\* The longest array a rendered research response holds.
MaxElems == 4
\* The most keys an object handed to _create_research_from_json on its own holds.
MaxPresentKeys == 2
\* The longest text of the exhaustive check of _clean_json_content.
MaxTextLen == 4
\* The most sections a rendered e-mail response holds.
MaxSections == 4
\* The most data rows of an input file.
MaxRows == 3
\* The largest configured chunk_size (the smallest is -1).
MaxChunkSize == 3
\* The most data rows of an input file that are not of the kind "valid".
MaxIrregularRows == 1

-----------------------------------------------------------------------------
\* Python values.

\* str(n) for the small integers the model's messages interpolate.
NumStr(n) ==
  IF n < 0 THEN "-" ELSE
  IF n = 60 THEN "60" ELSE
  IF n = 1200 THEN "1200" ELSE
  IF n <= 9 THEN <<"0", "1", "2", "3", "4", "5", "6", "7", "8", "9">>[n + 1]
  ELSE "many"

\* A JSON scalar as json.loads yields it; "absent" marks a key the object lacks.
JV(t, s, n) == [t |-> t, s |-> s, n |-> n]
Absent == JV("absent", "", 0)
JNull == JV("null", "", 0)
JStr(s) == JV("str", s, 0)
JNum(n) == JV("num", "", n)
JBool(b) == JV("bool", "", IF b THEN 1 ELSE 0)
\* A list or an object nested inside an object, known by its size only.
JList(n) == JV("list", "", n)
JDict(n) == JV("dict", "", n)

\* Python's truth value of a JSON value: None, "", 0, False, [] and {} are falsy.
Truthy(v) ==
  CASE v.t = "null" -> FALSE
    [] v.t = "str" -> v.s # ""
    [] v.t = "num" -> v.n # 0
    [] v.t = "bool" -> v.n = 1
    [] v.t = "list" -> v.n > 0
    [] v.t = "dict" -> v.n > 0
    [] OTHER -> FALSE

\* str(value) of a JSON value.
PyStr(v) ==
  CASE v.t = "null" -> "None"
    [] v.t = "str" -> v.s
    [] v.t = "num" -> NumStr(v.n)
    [] v.t = "bool" -> (IF v.n = 1 THEN "True" ELSE "False")
    [] v.t = "list" -> (IF v.n = 0 THEN "[]" ELSE "[...]")
    [] v.t = "dict" -> (IF v.n = 0 THEN "{}" ELSE "{...}")
    [] OTHER -> ""

\* The keys of the condensed research schema that _create_research_from_json reads.
JsonKeys ==
  {"person_name", "company_name", "person_ai_project", "company_ai_initiatives",
   "key_challenges", "how_truefoundry_can_help"}

\* One element of the parsed array: an object with its keys (d), or another value.
Elem(t, n, d) == [t |-> t, n |-> n, d |-> d]
EmptyDict == [k \in JsonKeys |-> Absent]
ObjElem(d) == Elem("dict", 0, d)
NumElem(n) == Elem("num", n, EmptyDict)
ListElem(n) == Elem("list", n, EmptyDict)

\* Exceptions and outcomes.
Exc(type, msg) == [type |-> type, msg |-> msg]
NoExc == Exc("", <<>>)
Ok(value, log) == [ok |-> TRUE, value |-> value, exc |-> NoExc, log |-> log]
Raise(exc, log) == [ok |-> FALSE, value |-> <<>>, exc |-> exc, log |-> log]
NotCalled == [ok |-> FALSE, value |-> <<>>, exc |-> NoExc, log |-> <<>>]

-----------------------------------------------------------------------------
\* Text: sequences of tokens, and the str methods and regular expressions used.

IsSpace(c) == c \in {" ", "\n", "\r"}

\* The first index >= i of s that holds no whitespace (Len(s) + 1 when none):
\* where a greedy \s* that starts at i stops.
SkipSpace(s, i) ==
  IF \E j \in i..Len(s) : ~IsSpace(s[j])
  THEN CHOOSE j \in i..Len(s) : ~IsSpace(s[j]) /\ \A k \in i..(j - 1) : IsSpace(s[k])
  ELSE IF i > Len(s) THEN i ELSE Len(s) + 1

\* Whether the literal pat occurs in s at index i.
MatchAt(s, i, pat) ==
  /\ i + Len(pat) - 1 <= Len(s)
  /\ \A k \in 1..Len(pat) : s[i + k - 1] = pat[k]

\* re.sub(pat + r'\s*', '', s) from index i on: the leftmost match is removed
\* with the whitespace that follows it, and the scan goes on after the match.
RECURSIVE ReSubFrom(_, _, _)
ReSubFrom(s, i, pat) ==
  IF \E m \in i..Len(s) : MatchAt(s, m, pat)
  THEN LET m == CHOOSE m \in i..Len(s) :
                  MatchAt(s, m, pat) /\ \A k \in i..(m - 1) : ~MatchAt(s, k, pat)
       IN SubSeq(s, i, m - 1) \o ReSubFrom(s, SkipSpace(s, m + Len(pat)), pat)
  ELSE SubSeq(s, i, Len(s))

ReSub(pat, s) == ReSubFrom(s, 1, pat)

\* The two patterns of _clean_json_content: three backticks and the word json,
\* and three backticks, each followed by \s* (Backtick is one backtick character).
Backtick == "BACKTICK"
FenceJson == <<Backtick, Backtick, Backtick, "json">>
Fence == <<Backtick, Backtick, Backtick>>

\* str.strip(): leading and trailing whitespace removed.
RStripLen(s, n) ==
  IF \E j \in 1..n : ~IsSpace(s[j])
  THEN CHOOSE j \in 1..n : ~IsSpace(s[j]) /\ \A k \in (j + 1)..n : IsSpace(s[k])
  ELSE 0

Strip(s) ==
  LET a == SkipSpace(s, 1)
      b == RStripLen(s, Len(s))
  IN IF a > b THEN <<>> ELSE SubSeq(s, a, b)

\* str.find(c) and str.rfind(c): the 0-based index of the first and of the last
\* occurrence of c, -1 when there is none.
Find(s, c) ==
  IF \E i \in 1..Len(s) : s[i] = c
  THEN (CHOOSE i \in 1..Len(s) : s[i] = c /\ \A j \in 1..(i - 1) : s[j] # c) - 1
  ELSE -1

RFind(s, c) ==
  IF \E i \in 1..Len(s) : s[i] = c
  THEN (CHOOSE i \in 1..Len(s) : s[i] = c /\ \A j \in (i + 1)..Len(s) : s[j] # c) - 1
  ELSE -1

\* s[a:b] for 0 <= a <= b <= len(s).
Slice(s, a, b) == SubSeq(s, a + 1, b)

\* _clean_json_content: fences removed, stripped, then the span from the first
\* '[' to the last ']'; raises when there is no such span.
NoArrayExc == Exc("Exception", <<"No valid JSON array found in LLM response">>)

\* s[a:b] as Python clamps it for any a, b >= 0.
ClampedSlice(s, a, b) ==
  IF a >= Len(s) THEN <<>> ELSE SubSeq(s, a + 1, IF b > Len(s) THEN Len(s) ELSE b)

\* The lines of _clean_json_content after strip(): the span of s from its first
\* '[' to its last ']', or the failure when there is no such span.
ArraySpan(s) ==
  LET start_idx == Find(s, "[")
      end_idx == RFind(s, "]")
  IN IF start_idx # -1 /\ end_idx # -1 /\ end_idx > start_idx
     THEN Ok(Slice(s, start_idx, end_idx + 1), <<>>)
     ELSE Raise(NoArrayExc, << <<"No valid JSON array found in response">> >>)

\* A variant of _clean_json_content that searches the brackets in the text as
\* received and slices the text without its fences at those indices.
clean_json_indices_of_raw(content) ==
  LET s1 == ReSub(FenceJson, content)
      s2 == ReSub(Fence, s1)
      s3 == Strip(s2)
      start_idx == Find(content, "[")
      end_idx == RFind(content, "]")
  IN IF start_idx # -1 /\ end_idx # -1 /\ end_idx > start_idx
     THEN Ok(ClampedSlice(s3, start_idx, end_idx + 1), <<>>)
     ELSE Raise(NoArrayExc, << <<"No valid JSON array found in response">> >>)

\* A variant of _clean_json_content that ends the span at the first ']'.
clean_json_first_close(content) ==
  LET s1 == ReSub(FenceJson, content)
      s2 == ReSub(Fence, s1)
      s3 == Strip(s2)
      start_idx == Find(s3, "[")
      end_idx == Find(s3, "]")
  IN IF start_idx # -1 /\ end_idx # -1 /\ end_idx > start_idx
     THEN Ok(Slice(s3, start_idx, end_idx + 1), <<>>)
     ELSE Raise(NoArrayExc, << <<"No valid JSON array found in response">> >>)

_clean_json_content(content) ==
  ArraySpan(Strip(ReSub(Fence, ReSub(FenceJson, content))))

-----------------------------------------------------------------------------
\* Records.

\* ProspectInput.
ProspectInput(person_name, company_name, linkedin_url) ==
  [person_name |-> person_name, company_name |-> company_name,
   linkedin_url |-> linkedin_url]

\* The prospects of the model: prospect i of an input file, already trimmed.
PersonNames == <<"Ann", "Bob", "Cy", "Di", "Ed", "Flo">>
CompanyNames == <<"Acme", "Beta", "Corp", "Delta", "Echo", "Fox">>
LinkedinUrls == <<"url1", "url2", "url3", "url4", "url5", "url6">>
Prospect(i) == ProspectInput(PersonNames[i], CompanyNames[i], LinkedinUrls[i])
Prospects(n) == [i \in 1..n |-> Prospect(i)]

\* ResearchOutput's fields in declaration order, which is also the order of
\* ResearchOutput.get_csv_headers.
ResearchFields ==
  <<"person_name", "company_name", "linkedin_url",
    "general_report", "ai_ml_initiatives", "key_challenges_solving",
    "how_truefoundry_can_help", "personal_details",
    "executive_urgency_earnings_board_mentions", "executive_urgency_infra_costs",
    "regulatory_compliance_deadlines", "regulatory_soc2_eu_ai_act",
    "incident_outage_rollback",
    "competitive_stack_usage_rival_vendors",
    "fresh_funding_partnerships",
    "hiring_spikes_ml_ops_ai_infra",
    "metric_targets_sla_arr_csat_cost",
    "negative_triggers_layoffs_churn_failed_pocs",
    "technical_deployment_on_prem_provider", "technical_deployment_cloud_providers",
    "production_maturity_inference_volume", "production_maturity_fda_cleared",
    "conference_webinar_quotes",
    "recent_ai_posts_comments_90_days",
    "experience_shift_career_pivot",
    "org_map_boss_peers_reports",
    "internal_okrs_scorecards",
    "event_activity_speaker_exhibitor",
    "poll_participation_ai_cost_regulation",
    "breakage_claims_rollout_governance">>

ResearchFieldSet == {ResearchFields[i] : i \in 1..Len(ResearchFields)}

-----------------------------------------------------------------------------
\* json.loads on the cleaned text.

\* The JSON literals (other than arrays) a response of the model can hold, and the
\* value json.loads gives each.  {A} is a complete object whose person_name and
\* company_name are those of prospect 2; {B} lacks person_name and holds falsy
\* values; {} is the empty object; 7 is a number, so not an object.
ObjA ==
  [k \in JsonKeys |->
     CASE k = "person_name" -> JStr("Bob")
       [] k = "company_name" -> JStr("Beta")
       [] k = "person_ai_project" -> JStr("projectA")
       [] k = "company_ai_initiatives" -> JStr("initiativesA")
       [] k = "key_challenges" -> JStr("challengesA")
       [] OTHER -> JStr("helpA")]

ObjB ==
  [k \in JsonKeys |->
     CASE k = "person_name" -> Absent
       [] k = "company_name" -> JNull
       [] k = "person_ai_project" -> JStr("")
       [] k = "company_ai_initiatives" -> JNum(0)
       [] k = "key_challenges" -> JStr("challengesB")
       [] OTHER -> JBool(FALSE)]

JsonLiterals == {"{A}", "{B}", "{}", "7"}

LiteralValue(tok) ==
  CASE tok = "{A}" -> ObjElem(ObjA)
    [] tok = "{B}" -> ObjElem(ObjB)
    [] tok = "{}" -> ObjElem(EmptyDict)
    [] OTHER -> NumElem(7)

\* One JSON value read from index i of s: [ok, v, items, next]; items are the
\* elements when the value is an array, next is the index after the value.
ParseFail == [ok |-> FALSE, v |-> NumElem(0), items |-> <<>>, next |-> 0]

RECURSIVE ParseValue(_, _)
RECURSIVE ParseElems(_, _, _)
ParseValue(s, i) ==
  LET j == SkipSpace(s, i)
  IN IF j > Len(s) THEN ParseFail
     ELSE IF s[j] \in JsonLiterals
     THEN [ok |-> TRUE, v |-> LiteralValue(s[j]), items |-> <<>>, next |-> j + 1]
     ELSE IF s[j] = "["
     THEN LET k == SkipSpace(s, j + 1)
          IN IF k <= Len(s) /\ s[k] = "]"
             THEN [ok |-> TRUE, v |-> ListElem(0), items |-> <<>>, next |-> k + 1]
             ELSE ParseElems(s, j + 1, <<>>)
     ELSE ParseFail

\* The elements of an array from index i on, acc being those already read.
ParseElems(s, i, acc) ==
  LET r == ParseValue(s, i)
  IN IF ~r.ok THEN ParseFail
     ELSE LET k == SkipSpace(s, r.next)
              acc2 == Append(acc, r.v)
          IN IF k > Len(s) THEN ParseFail
             ELSE IF s[k] = "," THEN ParseElems(s, k + 1, acc2)
             ELSE IF s[k] = "]"
             THEN [ok |-> TRUE, v |-> ListElem(Len(acc2)), items |-> acc2,
                   next |-> k + 1]
             ELSE ParseFail

\* json.loads(s): the one value of s, nothing but whitespace around it.
JsonLoads(s) ==
  LET r == ParseValue(s, 1)
  IN IF r.ok /\ SkipSpace(s, r.next) > Len(s) THEN r ELSE ParseFail

-----------------------------------------------------------------------------
\* LLMResponseParser._create_research_from_json and parse_research_json.

\* A variant of get_field that falls back only when the key is missing.
get_field_present(json_obj, field_name, fallback) ==
  LET value == json_obj.d[field_name]
  IN IF value.t = "absent" THEN fallback ELSE PyStr(value)

\* get_field inside _create_research_from_json:
\*   value = json_obj.get(field_name, fallback); str(value) if value else fallback
get_field(json_obj, field_name, fallback) ==
  LET value == json_obj.d[field_name]
  IN IF value.t = "absent" THEN fallback
     ELSE IF Truthy(value) THEN PyStr(value) ELSE fallback

\* The ResearchOutput built from one array element and the prospect at its position.
ResearchFromJson(json_obj, prospect) ==
  [f \in ResearchFieldSet |->
     CASE f = "person_name" -> get_field(json_obj, "person_name", prospect.person_name)
       [] f = "company_name" -> get_field(json_obj, "company_name", prospect.company_name)
       [] f = "linkedin_url" -> prospect.linkedin_url
       [] f = "general_report" -> get_field(json_obj, "person_ai_project", "NA")
       [] f = "ai_ml_initiatives" -> get_field(json_obj, "company_ai_initiatives", "NA")
       [] f = "key_challenges_solving" -> get_field(json_obj, "key_challenges", "NA")
       [] f = "how_truefoundry_can_help" ->
            get_field(json_obj, "how_truefoundry_can_help", "NA")
       [] f = "personal_details" -> get_field(json_obj, "person_name", prospect.person_name)
       [] OTHER -> "NA"]

\* Python's name of the type of an array element.
TypeName(e) ==
  CASE e.t = "num" -> "int"
    [] e.t = "list" -> "list"
    [] OTHER -> e.t

\* _create_research_from_json: json_obj.get exists on an object only.
_create_research_from_json(json_obj, prospect) ==
  IF json_obj.t = "dict"
  THEN Ok(ResearchFromJson(json_obj, prospect), <<>>)
  ELSE Raise(Exc("AttributeError",
                 <<"'", TypeName(json_obj), "' object has no attribute 'get'">>), <<>>)

\* A variant of JsonIncomplete that reports the two counts the other way round.
JsonIncompleteSwapped(found, expected) ==
  Exc("Exception", <<"JSON parsing incomplete: Only ", NumStr(expected),
                     " objects found, expected ", NumStr(found)>>)

\* The failure of parse_research_json for an array shorter than the prospect list.
JsonIncomplete(found, expected) ==
  Exc("Exception", <<"JSON parsing incomplete: Only ", NumStr(found),
                     " objects found, expected ", NumStr(expected)>>)

\* A variant of ResearchLoop that looks the prospect's name up among the objects
\* and falls back on the position only when no object carries it.
RECURSIVE ResearchLoopByName(_, _, _, _)
ResearchLoopByName(research_data, prospect_list, k, results) ==
  IF k > Len(prospect_list) THEN Ok(results, <<>>)
  ELSE IF k <= Len(research_data)
  THEN LET named == {j \in 1..Len(research_data) :
                       /\ research_data[j].t = "dict"
                       /\ research_data[j].d["person_name"] = JStr(prospect_list[k].person_name)}
           j == IF named = {} THEN k ELSE CHOOSE x \in named : \A y \in named : x <= y
           r == _create_research_from_json(research_data[j], prospect_list[k])
       IN IF r.ok
          THEN ResearchLoopByName(research_data, prospect_list, k + 1,
                                  Append(results, r.value))
          ELSE r
  ELSE Raise(JsonIncomplete(Len(research_data), Len(prospect_list)),
             << <<"No JSON object for prospect ", NumStr(k), ": ",
                  prospect_list[k].person_name>> >>)

\* The loop of parse_research_json over the prospect_list, from prospect k on
\* (k is the code's i + 1), results being the records already built.
RECURSIVE ResearchLoop(_, _, _, _)
ResearchLoop(research_data, prospect_list, k, results) ==
  IF k > Len(prospect_list) THEN Ok(results, <<>>)
  ELSE IF k <= Len(research_data)
  THEN LET r == _create_research_from_json(research_data[k], prospect_list[k])
       IN IF r.ok
          THEN ResearchLoop(research_data, prospect_list, k + 1, Append(results, r.value))
          ELSE r
  ELSE Raise(JsonIncomplete(Len(research_data), Len(prospect_list)),
             << <<"No JSON object for prospect ", NumStr(k), ": ",
                  prospect_list[k].person_name>> >>)

\* The lines the handler "except Exception" of parse_research_json logs.
JsonFailureLog(e, content, have_data, found, expected) ==
  << <<"Failed to parse research JSON: ">> \o e.msg,
     <<"JSON content: ">> \o content >>
  \o (IF have_data
      THEN << <<"Parsed ", NumStr(found), " JSON objects, expected ",
                NumStr(expected)>> >>
      ELSE <<>>)

\* parse_research_json from the loop on: r is the outcome of the array check and
\* of the loop; a failure passes through the handler "except Exception".
LoopOutcome(r, content, found, expected) ==
  IF r.ok THEN r
  ELSE Raise(r.exc, r.log \o JsonFailureLog(r.exc, content, TRUE, found, expected))

\* parse_research_json once json.loads returned what loaded holds; a text that
\* json.loads rejects goes through the handler "except json.JSONDecodeError".
Loaded(loaded, cleaned_json, content, prospect_list) ==
  IF ~loaded.ok
  THEN Raise(Exc("Exception", <<"Invalid JSON format from LLM: ", "JSONDecodeError">>),
             << <<"JSON parsing failed: ", "JSONDecodeError">>,
                <<"JSON content that failed: ">> \o content,
                <<"Cleaned JSON that failed: ">> \o cleaned_json >>)
  ELSE LoopOutcome(IF loaded.v.t # "list"
                   THEN Raise(Exc("Exception", <<"JSON response is not an array">>), <<>>)
                   ELSE ResearchLoop(loaded.items, prospect_list, 1, <<>>),
                   content, Len(loaded.items), Len(prospect_list))

\* parse_research_json once _clean_json_content returned or raised.
Cleaned(cleaned, content, prospect_list) ==
  IF ~cleaned.ok
  THEN Raise(cleaned.exc, cleaned.log \o JsonFailureLog(cleaned.exc, content, FALSE, 0, 0))
  ELSE Loaded(JsonLoads(cleaned.value), cleaned.value, content, prospect_list)

parse_research_json(content, prospect_list) ==
  Cleaned(_clean_json_content(content), content, prospect_list)

-----------------------------------------------------------------------------
\* Responses of the research model, as text.

\* All sequences over S of length at most n.
SeqsUpTo(S, n) == UNION {[1..k -> S] : k \in 0..n}

\* The elements of an array separated by commas.
RECURSIVE Joined(_)
Joined(elems) ==
  IF Len(elems) = 0 THEN <<>>
  ELSE IF Len(elems) = 1 THEN <<elems[1]>>
  ELSE <<elems[1], ",", " ">> \o Joined(Tail(elems))

ArrayText(elems) == <<"[">> \o Joined(elems) \o <<"]">>

\* The ways a response is written around its array.  The first five hold a
\* well-formed array; the others are the malformed responses the parser rejects.
WellFormedStyles == {"plain", "fenced", "prose_before", "prose_after", "fenced_prose"}
MalformedStyles == {"unclosed", "trailing_comma", "no_array"}
Styles == WellFormedStyles \cup MalformedStyles

Render(elems, style) ==
  CASE style = "plain" -> ArrayText(elems)
    [] style = "fenced" -> FenceJson \o <<"\n">> \o ArrayText(elems) \o <<"\n">> \o Fence
    [] style = "prose_before" -> <<"x", "x", ":", "\n">> \o ArrayText(elems)
    [] style = "prose_after" -> ArrayText(elems) \o <<"\n", "x", "x">>
    [] style = "fenced_prose" ->
         FenceJson \o <<"\n">> \o ArrayText(elems) \o <<"\n">> \o Fence
           \o <<"\n", "x", "x", ":">>
    [] style = "unclosed" -> <<"[">> \o Joined(elems)
    [] style = "trailing_comma" -> <<"[">> \o Joined(elems) \o <<",", "]">>
    [] OTHER -> Joined(elems)

-----------------------------------------------------------------------------
\* parse_research_json called on its own: a call on a rendered response.

JsonStart ==
  /\ json_pc = "call"
  /\ llm_array \in SeqsUpTo(JsonLiterals, MaxElems)
  /\ llm_style \in Styles
  /\ json_content = Render(llm_array, llm_style)
  /\ original_prospects \in {Prospects(n) : n \in 0..MaxProspects}
  /\ json_out = NotCalled

ParseResearchJson ==
  /\ json_pc = "call"
  /\ json_pc' = "returned"
  /\ json_out' = parse_research_json(json_content, original_prospects)
  /\ UNCHANGED <<json_content, original_prospects, llm_array, llm_style>>
  /\ UNCHANGED <<fieldVars, cleanVars, emailVars, runVars,
                 gwVars, promptVars, envVars, csvVars, laterVars>>

JsonIdle ==
  /\ json_pc = "idle" /\ json_content = <<>> /\ original_prospects = <<>>
  /\ llm_array = <<>> /\ llm_style = "plain" /\ json_out = NotCalled

-----------------------------------------------------------------------------
\* Properties of parse_research_json (checked under SpecJson).

\* The parser's failure for a short array, known by its message.
IsJsonIncomplete(e) ==
  e.type = "Exception" /\ Len(e.msg) >= 1 /\ e.msg[1] = "JSON parsing incomplete: Only "

\* The pieces of text after which a message or a log line gives a prospect's number.
ProspectLabels ==
  {"No JSON object for prospect ", "No email section for prospect ",
   "No CSV row for prospect "}

\* Whether the text names prospect number k.
NamesProspect(text, k) ==
  \E i \in 1..(Len(text) - 1) : text[i] \in ProspectLabels /\ text[i + 1] = NumStr(k)

\* Whether the text gives the count found and then the count expected.
CarriesCounts(text, found, expected) ==
  \E i, j \in 1..Len(text) :
    i < j /\ text[i] = NumStr(found) /\ text[j] = NumStr(expected)

\* C2: whenever parse_research_json returns successfully for n prospects it
\* returns exactly n records, and record i is built from array element i paired
\* with prospect i, whatever names the elements carry; record i carries
\* prospect i's linkedin_url.
C2_RecordsByPosition ==
  (json_pc = "returned" /\ json_out.ok) =>
    /\ Len(json_out.value) = Len(original_prospects)
    /\ Len(llm_array) >= Len(original_prospects)
    /\ \A i \in 1..Len(original_prospects) :
         /\ json_out.value[i] =
              ResearchFromJson(LiteralValue(llm_array[i]), original_prospects[i])
         /\ json_out.value[i]["linkedin_url"] = original_prospects[i].linkedin_url

\* C2's case: two prospects or more, the first array element named after
\* prospect 2, and the first record still built from it for prospect 1.
C2_Witness ==
  /\ json_pc = "returned" /\ json_out.ok
  /\ Len(original_prospects) >= 2
  /\ llm_array[1] = "{A}" /\ llm_array[2] = "{B}"
  /\ json_out.value[1]["person_name"] = original_prospects[2].person_name
  /\ json_out.value[1]["general_report"] = "projectA"
  /\ json_out.value[1]["linkedin_url"] = "url1"
  /\ json_out.value[2]["key_challenges_solving"] = "challengesB"
  /\ json_out.value[2]["linkedin_url"] = "url2"

\* The outcome of parsing the array cut to its first n elements.
TruncatedOutcome ==
  parse_research_json(
    Render(SubSeq(llm_array, 1, Len(original_prospects)), llm_style),
    original_prospects)

\* C3 (as claimed): for a response that parses to an array of m elements and n
\* prospects, the parser fails with IncompleteCoverage if and only if m < n, and
\* when m >= n the elements from position n on change nothing: the outcome is
\* that of the array cut to n elements.
C3_IncompleteIffShort ==
  (json_pc = "returned" /\ llm_style \in WellFormedStyles) =>
    /\ IsJsonIncomplete(json_out.exc) <=> (Len(llm_array) < Len(original_prospects))
    /\ Len(llm_array) >= Len(original_prospects) =>
         /\ json_out.ok = TruncatedOutcome.ok
         /\ json_out.value = TruncatedOutcome.value
         /\ json_out.exc = TruncatedOutcome.exc

\* C4 (as claimed): the failure for m parsed objects and n > m prospects carries
\* both counts and names the first missing prospect, prospect m + 1.
C4_FailureNamesProspect ==
  (json_pc = "returned" /\ IsJsonIncomplete(json_out.exc)) =>
    /\ CarriesCounts(json_out.exc.msg, Len(llm_array), Len(original_prospects))
    /\ NamesProspect(json_out.exc.msg, Len(llm_array) + 1)

\* C4 (amended): the failure carries both counts, m parsed and n expected, and
\* names no prospect; the first missing prospect, prospect m + 1, is named with
\* its person_name in the error log written just before the failure is raised.
C4_CountsInFailureProspectInLog ==
  (json_pc = "returned" /\ IsJsonIncomplete(json_out.exc)) =>
    /\ Len(llm_array) < Len(original_prospects)
    /\ CarriesCounts(json_out.exc.msg, Len(llm_array), Len(original_prospects))
    /\ \A k \in 0..(MaxProspects + 1) : ~NamesProspect(json_out.exc.msg, k)
    /\ Len(json_out.log) >= 1
    /\ NamesProspect(json_out.log[1], Len(llm_array) + 1)
    /\ json_out.log[1][Len(json_out.log[1])] =
         original_prospects[Len(llm_array) + 1].person_name

\* C4's case: one object for three prospects, so that the first missing
\* prospect (2) is neither of the two counts.
C4_Witness ==
  /\ json_pc = "returned" /\ IsJsonIncomplete(json_out.exc)
  /\ Len(llm_array) = 1 /\ Len(original_prospects) = 3
  /\ NamesProspect(json_out.log[1], 2)

-----------------------------------------------------------------------------
\* _create_research_from_json called on its own, on every small object.

\* The values a key of a response object can hold.
JsonValues ==
  {JNull, JStr(""), JStr(" "), JStr("text"), JNum(0), JNum(7), JBool(FALSE),
   JBool(TRUE), JList(0), JList(2), JDict(0), JDict(1)}

\* The objects that hold exactly the keys K.
DictsWithKeys(K) ==
  {[k \in JsonKeys |-> IF k \in K THEN f[k] ELSE Absent] : f \in [K -> JsonValues]}

\* The sets of at most MaxPresentKeys keys.
KeySets == {S \in SUBSET JsonKeys : Cardinality(S) <= MaxPresentKeys}

FieldStart ==
  /\ field_pc = "call"
  /\ \/ \E K \in KeySets : \E d \in DictsWithKeys(K) : field_obj = ObjElem(d)
     \/ field_obj \in {NumElem(7), ListElem(1)}
  /\ field_prospect \in {Prospect(1), Prospect(2)}
  /\ field_out = NotCalled

CreateResearchFromJson ==
  /\ field_pc = "call"
  /\ field_pc' = "returned"
  /\ field_out' = _create_research_from_json(field_obj, field_prospect)
  /\ UNCHANGED <<field_obj, field_prospect>>
  /\ UNCHANGED <<jsonVars, cleanVars, emailVars, runVars,
                 gwVars, promptVars, envVars, csvVars, laterVars>>

FieldIdle ==
  /\ field_pc = "idle" /\ field_obj = NumElem(0) /\ field_prospect = Prospect(1)
  /\ field_out = NotCalled

\* The JSON key each field of the condensed schema is read from.
MappedFields ==
  {"person_name", "company_name", "general_report", "ai_ml_initiatives",
   "key_challenges_solving", "how_truefoundry_can_help", "personal_details"}

KeyOfField(f) ==
  CASE f = "person_name" -> "person_name"
    [] f = "company_name" -> "company_name"
    [] f = "general_report" -> "person_ai_project"
    [] f = "ai_ml_initiatives" -> "company_ai_initiatives"
    [] f = "key_challenges_solving" -> "key_challenges"
    [] f = "how_truefoundry_can_help" -> "how_truefoundry_can_help"
    [] f = "personal_details" -> "person_name"

MissingOrFalsy(v) == v.t = "absent" \/ ~Truthy(v)

\* C6 (as claimed): in every ResearchOutput built from a JSON object, a field
\* read from a key that is missing or holds a falsy value holds "NA", and no
\* field holds an empty string or null.
C6_FalsyFieldsAreNA ==
  (field_pc = "returned" /\ field_out.ok) =>
    /\ \A f \in MappedFields :
         MissingOrFalsy(field_obj.d[KeyOfField(f)]) => field_out.value[f] = "NA"
    /\ \A f \in ResearchFieldSet : field_out.value[f] \notin {"", "None"}

\* C6 (amended): general_report, ai_ml_initiatives, key_challenges_solving and
\* how_truefoundry_can_help hold "NA" when their key is missing or falsy;
\* person_name and personal_details then hold the prospect's person_name and
\* company_name the prospect's company_name; no field holds an empty string or
\* null.
C6_FalsyFieldsFallBack ==
  (field_pc = "returned" /\ field_out.ok) =>
    /\ \A f \in MappedFields :
         MissingOrFalsy(field_obj.d[KeyOfField(f)]) =>
           field_out.value[f] =
             (CASE f \in {"person_name", "personal_details"} -> field_prospect.person_name
                [] f = "company_name" -> field_prospect.company_name
                [] OTHER -> "NA")
    /\ \A f \in ResearchFieldSet : field_out.value[f] \notin {"", "None"}

\* C6's case: an object whose person_name is the empty string and whose
\* key_challenges is null.
C6_Witness ==
  /\ field_pc = "returned" /\ field_out.ok
  /\ field_obj.d["person_name"] = JStr("")
  /\ field_obj.d["key_challenges"] = JNull
  /\ field_out.value["person_name"] = field_prospect.person_name
  /\ field_out.value["key_challenges_solving"] = "NA"

-----------------------------------------------------------------------------
\* _clean_json_content and parse_research_json on every short text.

CleanAlphabet == {Backtick, "json", "\n", "[", "]", "x", "{A}"}
ShortTexts == SeqsUpTo(CleanAlphabet, MaxTextLen)
RenderedTexts == {Render(e, st) : e \in SeqsUpTo({"{A}", "7"}, 2), st \in Styles}
CleanProspectCounts == {0, 2}

\* The text wrapped in a json fence.
Wrap(t) == FenceJson \o <<"\n">> \o t \o <<"\n">> \o Fence

CleanStart ==
  /\ clean_pc = "clean"
  /\ clean_text \in ShortTexts \cup RenderedTexts
  /\ clean_prospects \in {Prospects(n) : n \in CleanProspectCounts}
  /\ clean_out = NotCalled /\ plain_out = NotCalled /\ wrapped_out = NotCalled

CleanJsonContent ==
  /\ clean_pc = "clean"
  /\ clean_pc' = "plain"
  /\ clean_out' = _clean_json_content(clean_text)
  /\ UNCHANGED <<clean_text, clean_prospects, plain_out, wrapped_out>>
  /\ UNCHANGED <<jsonVars, fieldVars, emailVars, runVars,
                 gwVars, promptVars, envVars, csvVars, laterVars>>

ParsePlain ==
  /\ clean_pc = "plain"
  /\ clean_pc' = "wrapped"
  /\ plain_out' = parse_research_json(clean_text, clean_prospects)
  /\ UNCHANGED <<clean_text, clean_prospects, clean_out, wrapped_out>>
  /\ UNCHANGED <<jsonVars, fieldVars, emailVars, runVars,
                 gwVars, promptVars, envVars, csvVars, laterVars>>

ParseWrapped ==
  /\ clean_pc = "wrapped"
  /\ clean_pc' = "done"
  /\ wrapped_out' = parse_research_json(Wrap(clean_text), clean_prospects)
  /\ UNCHANGED <<clean_text, clean_prospects, clean_out, plain_out>>
  /\ UNCHANGED <<jsonVars, fieldVars, emailVars, runVars,
                 gwVars, promptVars, envVars, csvVars, laterVars>>

CleanIdle ==
  /\ clean_pc = "idle" /\ clean_text = <<>> /\ clean_prospects = <<>>
  /\ clean_out = NotCalled /\ plain_out = NotCalled /\ wrapped_out = NotCalled

\* C7: parse_research_json gives the same outcome for a text and for that text
\* wrapped in a json fence: the same records, or the same failure.
C7_FenceWrapSameOutcome ==
  clean_pc = "done" =>
    /\ plain_out.ok = wrapped_out.ok
    /\ plain_out.value = wrapped_out.value
    /\ plain_out.exc = wrapped_out.exc

\* C7's case: a text that parses to records and already begins with a fence.
C7_Witness ==
  /\ clean_pc = "done"
  /\ plain_out.ok /\ Len(plain_out.value) = 2
  /\ clean_text[1] = Backtick
  /\ wrapped_out.value[2]["linkedin_url"] = "url2"

\* The text without its fences, stripped.
FenceStripped(t) == Strip(ReSub(Fence, ReSub(FenceJson, t)))

HasBracketPair(s) ==
  \E i, j \in 1..Len(s) : i < j /\ s[i] = "[" /\ s[j] = "]"

FirstOpen(s) == CHOOSE i \in 1..Len(s) : s[i] = "[" /\ \A j \in 1..(i - 1) : s[j] # "["
LastClose(s) == CHOOSE i \in 1..Len(s) : s[i] = "]" /\ \A j \in (i + 1)..Len(s) : s[j] # "]"

\* The text with bracket-free prose before and after it.
ProseAround(t) == <<"x", "x", "\n">> \o t \o <<"\n", "x">>

\* C8: _clean_json_content returns exactly the span from the first '[' to the
\* last ']' of the fence-stripped text, fails with NoJsonArrayFound exactly when
\* no '[' is followed later by a ']', and gives the same result with
\* bracket-free prose put before and after the text.
C8_SpanFirstOpenToLastClose ==
  clean_pc \in {"plain", "wrapped", "done"} =>
    LET fs == FenceStripped(clean_text)
        around == _clean_json_content(ProseAround(clean_text))
    IN /\ clean_out.ok <=> HasBracketPair(fs)
       /\ ~clean_out.ok => clean_out.exc = NoArrayExc
       /\ clean_out.ok => clean_out.value = SubSeq(fs, FirstOpen(fs), LastClose(fs))
       /\ around.ok = clean_out.ok /\ around.value = clean_out.value

\* C8's case: prose before the first '[', two ']' and an array between them.
C8_Witness ==
  /\ clean_pc = "done" /\ clean_out.ok
  /\ clean_text = <<"x", "[", "]", "]">>
  /\ clean_out.value = <<"[", "]", "]">>

-----------------------------------------------------------------------------
\* LLMResponseParser._split_email_content, _parse_email_section and
\* parse_email_response.  In an e-mail response a token is a whitespace
\* character, one '=' or one '-' character, a label the regular expressions
\* look for, or a run of other text.

\* The labels r'PROSPECT\s*\d+:' and r'EMAIL\s*\d+:' match, in either case.
ProspectLabelTokens == <<"PROSPECT 1:", "PROSPECT 2:", "PROSPECT 3:", "PROSPECT 4:",
                         "PROSPECT 5:", "PROSPECT 6:">>
\* The labels that stand before the sections of a rendered response: both
\* words, in upper, lower and mixed case.
SectionLabelTokens == <<"PROSPECT 1:", "email 2:", "Prospect 3:", "EMAIL 4:",
                        "prospect 5:", "Email 6:">>
SplitLabels ==
  {ProspectLabelTokens[i] : i \in 1..Len(ProspectLabelTokens)}
    \cup {SectionLabelTokens[i] : i \in 1..Len(SectionLabelTokens)}
    \cup {"prospect 1:", "prospect 2:", "EMAIL 1:", "EMAIL 2:", "email 1:"}

\* The length of the run of c that starts at index i of s.
RunLen(s, i, c) ==
  IF \E j \in i..Len(s) : s[j] # c
  THEN (CHOOSE j \in i..Len(s) : s[j] # c /\ \A k \in i..(j - 1) : s[k] = c) - i
  ELSE IF i > Len(s) THEN 0 ELSE Len(s) + 1 - i

\* re.split(r'(?:PROSPECT\s*\d+:|EMAIL\s*\d+:|={3,})', s): the matches are the
\* labels and the maximal runs of three or more '='; MatchStarts holds the index
\* where each match starts, MatchEnd the index where the match at i ends.
MatchStarts(s) ==
  {i \in 1..Len(s) :
     \/ s[i] \in SplitLabels
     \/ s[i] = "=" /\ (i = 1 \/ s[i - 1] # "=") /\ RunLen(s, i, "=") >= 3}

MatchEnd(s, i) == IF s[i] = "=" THEN i + RunLen(s, i, "=") - 1 ELSE i

\* The k-th least element of the set S of numbers.
Nth(S, k) == CHOOSE a \in S : Cardinality({b \in S : b < a}) = k - 1

\* The pieces re.split returns: the text before the first match, between
\* consecutive matches, and after the last match.
ReSplit(s) ==
  [k \in 1..(Cardinality(MatchStarts(s)) + 1) |->
     SubSeq(s,
            IF k = 1 THEN 1 ELSE MatchEnd(s, Nth(MatchStarts(s), k - 1)) + 1,
            IF k = Cardinality(MatchStarts(s)) + 1 THEN Len(s)
            ELSE Nth(MatchStarts(s), k) - 1)]

\* [section.strip() for section in sections if section.strip()]
StripNonEmpty(pieces) ==
  SelectSeq([k \in 1..Len(pieces) |-> Strip(pieces[k])], LAMBDA piece : piece # <<>>)

_split_email_content(content) == StripNonEmpty(ReSplit(content))

\* EmailOutput.
EmailOutput(person_name, company_name, email_subject, email_body_msg1, email_body_msg2) ==
  [person_name |-> person_name, company_name |-> company_name,
   email_subject |-> email_subject, email_body_msg1 |-> email_body_msg1,
   email_body_msg2 |-> email_body_msg2]

\* The labels the patterns of _parse_email_section match.
SubjectLabels == {"SUBJECT:", "subject:"}
Msg1Labels == {"MESSAGE #1:", "message 1"}
Msg2Labels == {"MESSAGE #2:", "message 2"}
Part2Labels == {"PART 2: LINKEDIN DM", "Part 2: LinkedIn DM"}
Part3Labels == {"PART 3", "Part 3"}
\* Texts r'Hi\s+\w+,' matches.
HiGreetings == {"Hi there,", "hi team,"}

\* The least index >= i of s whose token is in S, Len(s) + 1 when there is none.
IndexIn(s, i, S) ==
  IF \E j \in i..Len(s) : s[j] \in S
  THEN CHOOSE j \in i..Len(s) : s[j] \in S /\ \A k \in i..(j - 1) : s[k] \notin S
  ELSE IF i > Len(s) THEN i ELSE Len(s) + 1

\* r'subject:?\s*(.+)': the first label that text follows, the whitespace after
\* it, then the rest of that line; 0 when nothing matches.  [from, to] is the
\* group.
RECURSIVE SubjectMatch(_, _)
SubjectMatch(s, i) ==
  LET l == IndexIn(s, i, SubjectLabels)
      j == SkipSpace(s, l + 1)
  IN IF l > Len(s) THEN [found |-> FALSE, from |-> 0, to |-> 0]
     ELSE IF j > Len(s) THEN SubjectMatch(s, l + 1)
     ELSE [found |-> TRUE, from |-> j, to |-> IndexIn(s, j, {"\n"}) - 1]

\* r'<label>\s*(.*?)(?=<stop>|$)' with DOTALL: the first label, the whitespace
\* after it, then everything up to the first stop label or the end.
LabelledBlock(s, labels, stops) ==
  LET l == IndexIn(s, 1, labels)
      j == SkipSpace(s, l + 1)
  IN IF l > Len(s) THEN [found |-> FALSE, from |-> 0, to |-> 0]
     ELSE [found |-> TRUE, from |-> j, to |-> IndexIn(s, j, stops) - 1]

\* r'(Hi\s+\w+,.*?)(?=\n\s*$|\Z)' with DOTALL on a stripped section: from the
\* greeting to the end of the section.
HiBlock(s) ==
  LET l == IndexIn(s, 1, HiGreetings)
  IN IF l > Len(s) THEN [found |-> FALSE, from |-> 0, to |-> 0]
     ELSE [found |-> TRUE, from |-> l, to |-> Len(s)]

\* match.group(1).strip() if the pattern matched, else the value kept.
GroupOr(s, m, default) ==
  IF m.found THEN Strip(SubSeq(s, m.from, m.to)) ELSE default

\* _parse_email_section on a stripped section.
_parse_email_section(section, research) ==
  EmailOutput(
    research["person_name"],
    research["company_name"],
    GroupOr(section, SubjectMatch(section, 1),
            <<"Your AI initiatives at ", research["company_name"]>>),
    GroupOr(section, LabelledBlock(section, Msg1Labels, Msg2Labels),
      GroupOr(section, LabelledBlock(section, Part2Labels, Part3Labels),
        GroupOr(section, HiBlock(section),
                <<"Personalized message to be generated">>))),
    <<>>)

\* The failure of parse_email_response for fewer sections than research records.
EmailIncomplete(found, expected) ==
  Exc("Exception", <<"Email parsing incomplete: Only ", NumStr(found),
                     " sections found, expected ", NumStr(expected)>>)

\* A variant of EmailLoop that writes a templated message for a research record
\* that has no section.
RECURSIVE EmailLoopFallback(_, _, _, _)
EmailLoopFallback(email_sections, research_list, k, emails) ==
  IF k > Len(research_list) THEN Ok(emails, <<>>)
  ELSE EmailLoopFallback(email_sections, research_list, k + 1,
         Append(emails,
                IF k <= Len(email_sections)
                THEN _parse_email_section(email_sections[k], research_list[k])
                ELSE _parse_email_section(<<"w">>, research_list[k])))

\* The loop of parse_email_response over the research records, from record k on
\* (k is the code's i + 1), emails being the records already built.
RECURSIVE EmailLoop(_, _, _, _)
EmailLoop(email_sections, research_list, k, emails) ==
  IF k > Len(research_list) THEN Ok(emails, <<>>)
  ELSE IF k <= Len(email_sections)
  THEN EmailLoop(email_sections, research_list, k + 1,
                 Append(emails,
                        _parse_email_section(email_sections[k], research_list[k])))
  ELSE Raise(EmailIncomplete(Len(email_sections), Len(research_list)),
             << <<"No email section for prospect ", NumStr(k), ": ",
                  research_list[k]["person_name"]>>,
                <<"Total email sections: ", NumStr(Len(email_sections)),
                  ", Expected: ", NumStr(Len(research_list))>> >>)

\* parse_email_response from the loop on: a failure passes through the handler
\* "except Exception".
SectionsOutcome(r, content, found, expected) ==
  IF r.ok THEN r
  ELSE Raise(r.exc,
             r.log \o << <<"Failed to parse email content: ">> \o r.exc.msg,
                         <<"Email content preview: ">> \o content,
                         <<"Email sections found: ", NumStr(found),
                           ", Expected: ", NumStr(expected)>> >>)

\* parse_email_response once _split_email_content returned.
Sections(email_sections, content, research_list) ==
  SectionsOutcome(EmailLoop(email_sections, research_list, 1, <<>>), content,
                  Len(email_sections), Len(research_list))

parse_email_response(content, research_list) ==
  Sections(_split_email_content(content), content, research_list)

-----------------------------------------------------------------------------
\* E-mail responses: the texts parse_email_response is checked on, with the
\* sections each was rendered from.

BodyTokens == <<"body1", "body2", "body3", "body4", "body5", "body6">>
Body(j) == BodyTokens[j]

\* The forms of a section: with the labels of the prompt, as a LinkedIn block,
\* as a greeted paragraph, as text that carries no label, and blank.
SectionForms == {"labelled", "part2", "hi", "bare", "blank"}

SectionText(form, j) ==
  CASE form = "labelled" ->
         <<" ", "title", "\n", "SUBJECT:", " ", "subj", "\n",
           "MESSAGE #1:", "\n", Body(j), "\n", "MESSAGE #2:", " ", "w", "\n">>
    [] form = "part2" ->
         <<"\n", "PART 2: LINKEDIN DM", "\n", Body(j), "\n", "PART 3", " ", "w", "\n">>
    [] form = "hi" -> <<"\n", "Hi there,", " ", Body(j), "\n">>
    [] form = "bare" -> <<" ", Body(j), "\n">>
    [] OTHER -> <<" ", "\n">>

\* What stands before section j: a numbered label, a run of '=' or a run of '-'.
Separators == {"labels", "equals", "dashes"}
SeparatorText(sep, j) ==
  CASE sep = "labels" -> <<SectionLabelTokens[j]>>
    [] sep = "equals" -> <<"=", "=", "=", "=", "\n">>
    [] OTHER -> <<"-", "-", "-", "\n">>

Preamble == <<"Here are the emails:", "\n">>

RECURSIVE RenderSections(_, _, _)
RenderSections(forms, sep, j) ==
  IF j > Len(forms) THEN <<>>
  ELSE SeparatorText(sep, j) \o SectionText(forms[j], j) \o RenderSections(forms, sep, j + 1)

RenderEmail(forms, layout) ==
  (IF layout.preamble THEN Preamble ELSE <<>>) \o RenderSections(forms, layout.sep, 1)

Layouts == [sep : Separators, preamble : BOOLEAN]

\* The research record of prospect i, as built from an object without keys.
Research(i) == ResearchFromJson(ObjElem(EmptyDict), Prospect(i))
ResearchResults(n) == [i \in 1..n |-> Research(i)]

EmailStart ==
  /\ email_pc = "call"
  /\ llm_sections \in SeqsUpTo(SectionForms, MaxSections)
  /\ llm_layout \in Layouts
  /\ email_content = RenderEmail(llm_sections, llm_layout)
  /\ research_in \in {ResearchResults(n) : n \in 0..MaxProspects}
  /\ email_out = NotCalled

\* parse_email_response(content, research_results), from call to return or raise.
ParseEmailResponse ==
  /\ email_pc = "call"
  /\ email_out' = parse_email_response(email_content, research_in)
  /\ email_pc' = "returned"
  /\ UNCHANGED <<email_content, research_in, llm_sections, llm_layout>>
  /\ UNCHANGED <<jsonVars, fieldVars, cleanVars, runVars,
                 gwVars, promptVars, envVars, csvVars, laterVars>>

EmailIdle ==
  /\ email_pc = "idle"
  /\ email_content = <<>>
  /\ research_in = <<>>
  /\ llm_sections = <<>>
  /\ llm_layout = [sep |-> "labels", preamble |-> FALSE]
  /\ email_out = NotCalled

\* The non-empty pieces of text the rendered response holds between its
\* boundaries: a run of '-' is no boundary (the pattern of _split_email_content
\* has no alternative for it), so a response separated by dashes is one piece.
RenderedPieces ==
  IF llm_layout.sep = "dashes"
  THEN IF llm_layout.preamble \/ Len(llm_sections) > 0 THEN 1 ELSE 0
  ELSE Cardinality({j \in 1..Len(llm_sections) : llm_sections[j] # "blank"})
         + (IF llm_layout.preamble THEN 1 ELSE 0)

IsEmailIncomplete(exc) ==
  /\ exc.type = "Exception"
  /\ Len(exc.msg) > 0
  /\ exc.msg[1] = "Email parsing incomplete: Only "

\* C5: parse_email_response fails with the incomplete-coverage failure whenever
\* the response holds fewer non-empty sections than there are research records;
\* a run that returns holds one e-mail record per research record, in order and
\* under the research record's names, and every one of them had a section.
C5_EmailIncompleteWhenShort ==
  email_pc = "returned" =>
    LET n == Len(research_in)
        k == RenderedPieces
    IN /\ k < n =>
            /\ ~email_out.ok
            /\ IsEmailIncomplete(email_out.exc)
            /\ CarriesCounts(email_out.exc.msg, k, n)
       /\ email_out.ok =>
            /\ n <= k
            /\ Len(email_out.value) = n
            /\ \A i \in 1..n :
                 /\ email_out.value[i].person_name = research_in[i]["person_name"]
                 /\ email_out.value[i].company_name = research_in[i]["company_name"]

\* A response of two non-empty sections was parsed for three research records.
C5_Witness ==
  /\ email_pc = "returned"
  /\ llm_layout.sep = "labels"
  /\ RenderedPieces = 2
  /\ Len(research_in) = 3
  /\ ~email_out.ok
  /\ IsEmailIncomplete(email_out.exc)

-----------------------------------------------------------------------------
\* Sections: the texts _parse_email_section is checked on, with the parts each
\* was rendered from.

\* What a section holds after its title line: a subject line or none; a
\* "message 1" label or none, with or without text after it, with or without
\* a "message 2" block after that; a "Part 2: LinkedIn DM" label with its text
\* or none, with or without a "Part 3" block after it; a greeted paragraph or
\* none; and which of the two labelled blocks comes first.
SectionParts ==
  [subject : BOOLEAN,
   msg1 : {"none"} \cup Msg1Labels, msg1_text : BOOLEAN, msg2 : BOOLEAN,
   part2 : {"none"} \cup Part2Labels, part3 : BOOLEAN,
   hi : {"none"} \cup HiGreetings,
   part2_first : BOOLEAN]

Msg1Block(parts) ==
  IF parts.msg1 = "none" THEN <<>>
  ELSE <<parts.msg1, "\n">>
         \o (IF parts.msg1_text THEN <<"first message", "\n">> ELSE <<>>)
         \o (IF parts.msg2 THEN <<"MESSAGE #2:", " ", "second message", "\n">> ELSE <<>>)

Part2Block(parts) ==
  IF parts.part2 = "none" THEN <<>>
  ELSE <<parts.part2, "\n", "direct message", "\n">>
         \o (IF parts.part3 THEN <<"PART 3", " ", "follow-up", "\n">> ELSE <<>>)

HiParagraph(parts) ==
  IF parts.hi = "none" THEN <<>> ELSE <<"\n", parts.hi, " ", "greeted text", "\n">>

\* The section as parse_email_response hands it over: trimmed.
RenderSection(parts) ==
  Strip(<<" ", "title", "\n">>
          \o (IF parts.subject THEN <<"SUBJECT:", " ", "subj", "\n">> ELSE <<>>)
          \o (IF parts.part2_first THEN Part2Block(parts) \o Msg1Block(parts)
              ELSE Msg1Block(parts) \o Part2Block(parts))
          \o HiParagraph(parts))

SectionStart ==
  /\ section_pc = "call"
  /\ section_parts \in SectionParts
  /\ section_text = RenderSection(section_parts)
  /\ section_out = NotCalled

\* _parse_email_section(section, research), from call to return.
ParseEmailSection ==
  /\ section_pc = "call"
  /\ section_out' = _parse_email_section(section_text, Research(1))
  /\ section_pc' = "returned"
  /\ UNCHANGED <<section_parts, section_text>>
  /\ UNCHANGED <<jsonVars, fieldVars, cleanVars, emailVars, runVars,
                 gwVars, promptVars, envVars, csvVars, rowsVars, processVars>>

-----------------------------------------------------------------------------
\* PipelineConfig: the fields the run reads.

DefaultMaxRetries == 3
DefaultTimeoutSeconds == 1200

PipelineConfig(chunk_size, max_retries, timeout_seconds) ==
  [chunk_size |-> chunk_size, max_retries |-> max_retries,
   timeout_seconds |-> timeout_seconds]

\* PipelineConfig.from_env takes CHUNK_SIZE, MAX_RETRIES and TIMEOUT_SECONDS with
\* int() and checks no range: chunk_size is any integer.
Configs ==
  {PipelineConfig(c, DefaultMaxRetries, DefaultTimeoutSeconds) : c \in (-1)..MaxChunkSize}
    \cup {PipelineConfig(c, 0, 60) : c \in (-1)..MaxChunkSize}

-----------------------------------------------------------------------------
\* EmailAutomationPipeline._read_csv_file.

\* A cell of a row as csv.DictReader gives it: a string, known by its text
\* without the surrounding whitespace (core) and by whether it has surrounding
\* whitespace (pad); or None, the value of a column the row has no cell for.
Cell(pad, core) == [none |-> FALSE, pad |-> pad, core |-> core]
NoneCell == [none |-> TRUE, pad |-> FALSE, core |-> ""]

\* cell.strip()
PyStrip(cell) == cell.core

\* expected_headers
RequiredFields == {"person_name", "company_name", "linkedin_url"}

\* The kinds of data row: complete; complete with padded cells; with a blank
\* company_name; with no cell for linkedin_url; with an empty person_name and
\* no cell for linkedin_url.
RowKinds == {"valid", "padded", "blank", "short", "short_blank"}

\* Row j of the file, of the given kind: its cells hold prospect j's values.
Row(kind, j) ==
  [f \in RequiredFields |->
     CASE kind = "valid" -> Cell(FALSE, Prospect(j)[f])
       [] kind = "padded" -> Cell(TRUE, Prospect(j)[f])
       [] kind = "blank" ->
            (IF f = "company_name" THEN Cell(TRUE, "") ELSE Cell(FALSE, Prospect(j)[f]))
       [] kind = "short" ->
            (IF f = "linkedin_url" THEN NoneCell ELSE Cell(FALSE, Prospect(j)[f]))
       [] OTHER ->
            (IF f = "linkedin_url" THEN NoneCell
             ELSE IF f = "person_name" THEN Cell(FALSE, "")
             ELSE Cell(FALSE, Prospect(j)[f]))]

\* The rows of a file: at most MaxRows rows, at most MaxIrregularRows of them
\* of another kind than "valid".
RowLists ==
  {kinds \in SeqsUpTo(RowKinds, MaxRows) :
     Cardinality({j \in 1..Len(kinds) : kinds[j] # "valid"}) <= MaxIrregularRows}

\* The input files: a header that holds the three columns with any rows, a
\* header that lacks a column, a file without a header line, and a path that
\* names no file.
CsvFiles ==
  {[header |-> "ok", rows |-> kinds] : kinds \in RowLists}
    \cup {[header |-> "missing_column", rows |-> <<"valid">>],
          [header |-> "empty_file", rows |-> <<>>],
          [header |-> "no_file", rows |-> <<>>]}

\* The orders in which a set of three strings is iterated: it depends on the
\* hash seed of the interpreter, so it is any order.
FieldOrders ==
  {o \in [1..3 -> RequiredFields] : \A a, b \in 1..3 : a # b => o[a] # o[b]}

\* all(row.get(field, '').strip() for field in expected_headers), fields taken
\* in the given order from index k on: "true", "false", or "error" when strip
\* is called on None before a blank cell ended the iteration.
RECURSIVE AllFieldsPresent(_, _, _)
AllFieldsPresent(row, order, k) ==
  IF k > Len(order) THEN "true"
  ELSE IF row[order[k]].none THEN "error"
  ELSE IF PyStrip(row[order[k]]) = "" THEN "false"
  ELSE AllFieldsPresent(row, order, k + 1)

\* The loop of _read_csv_file over the rows, from row j on.
RECURSIVE ReadRows(_, _, _, _)
ReadRows(rows, order, j, acc) ==
  IF j > Len(rows) THEN Ok(acc, <<>>)
  ELSE LET row == Row(rows[j], j)
           present == AllFieldsPresent(row, order, 1)
       IN IF present = "error"
          THEN Raise(Exc("AttributeError",
                         <<"'NoneType' object has no attribute 'strip'">>), <<>>)
          ELSE IF present = "false" THEN ReadRows(rows, order, j + 1, acc)
          ELSE ReadRows(rows, order, j + 1,
                        Append(acc, ProspectInput(PyStrip(row["person_name"]),
                                                  PyStrip(row["company_name"]),
                                                  PyStrip(row["linkedin_url"]))))

NoValidProspects == Exc("ValueError", <<"No valid prospects found in CSV file">>)

\* _read_csv_file after the loop over the rows.
RowsRead(read) ==
  IF ~read.ok THEN read
  ELSE IF Len(read.value) = 0 THEN Raise(NoValidProspects, <<>>)
  ELSE read

_read_csv_file(file, order) ==
  IF file.header = "no_file"
  THEN Raise(Exc("FileNotFoundError", <<"[Errno 2] No such file or directory: ", "csv_path">>),
             <<>>)
  ELSE IF file.header = "empty_file"
  THEN Raise(Exc("TypeError", <<"'NoneType' object is not iterable">>), <<>>)
  ELSE IF file.header # "ok"
  THEN Raise(Exc("ValueError", <<"CSV must contain columns: ", "expected_headers">>), <<>>)
  ELSE RowsRead(ReadRows(file.rows, order, 1, <<>>))

-----------------------------------------------------------------------------
\* TrueFoundryGateway.call_research_llm and call_email_llm.

\* What self.client.chat.completions.create does: it raises, or it returns a
\* response with or without choices, whose first choice has a content or None.
Reply(error, choices, none, text) ==
  [error |-> error, choices |-> choices, content |-> [none |-> none, text |-> text]]

ContentReply(text) == Reply(NoExc, TRUE, FALSE, text)

\* The errors the client raises: a request that ran out of time, a connection
\* that failed, and a gateway that answered with a time-out status.
ApiErrors ==
  {Exc("APITimeoutError", <<"Request timed out.">>),
   Exc("APIConnectionError", <<"Connection error.">>),
   Exc("InternalServerError", <<"Error code: 504 - ", "Gateway Timeout">>)}

\* The replies that carry no usable content.
EmptyReplies ==
  {Reply(e, FALSE, TRUE, <<>>) : e \in ApiErrors}
    \cup {Reply(NoExc, FALSE, TRUE, <<>>), Reply(NoExc, TRUE, TRUE, <<>>),
          Reply(NoExc, TRUE, FALSE, <<>>)}

\* "timeout" in str(e).lower(): the pieces of the model's messages that hold it.
TimeoutTokens ==
  {"Gateway Timeout", " seconds. Try reducing CHUNK_SIZE or increasing TIMEOUT_SECONDS."}
HasTimeout(msg) == \E a \in 1..Len(msg) : msg[a] \in TimeoutTokens

\* A variant of the handler that reports every failure as a time-out.
gateway_except_always(e, cfg) ==
  Exc("Exception",
      <<"LLM API call timed out after ", NumStr(cfg.timeout_seconds),
        " seconds. Try reducing CHUNK_SIZE or increasing TIMEOUT_SECONDS.">>)

\* The handler "except Exception as e" of both gateway calls.
gateway_except(e, cfg) ==
  IF HasTimeout(e.msg)
  THEN Exc("Exception",
           <<"LLM API call timed out after ", NumStr(cfg.timeout_seconds),
             " seconds. Try reducing CHUNK_SIZE or increasing TIMEOUT_SECONDS.">>)
  ELSE e

\* A variant of the try block without the two checks of the response.
GatewayTryNoChecks(reply, no_choices, empty_content, parsed) ==
  IF reply.error # NoExc THEN Raise(reply.error, <<>>) ELSE parsed

\* The body of the try block of a gateway call on the client's reply.
GatewayTry(reply, no_choices, empty_content, parsed) ==
  IF reply.error # NoExc THEN Raise(reply.error, <<>>)
  ELSE IF ~reply.choices THEN Raise(Exc("Exception", <<no_choices>>), <<>>)
  ELSE IF reply.content.none \/ reply.content.text = <<>>
  THEN Raise(Exc("Exception", <<empty_content>>), <<>>)
  ELSE parsed

\* A gateway call from the end of its try block on: a failure passes through
\* the handler.
GatewayOutcome(r, cfg) ==
  IF r.ok THEN r ELSE Raise(gateway_except(r.exc, cfg), r.log)

call_research_llm(reply, chunk, cfg) ==
  GatewayOutcome(GatewayTry(reply, "No choices returned from LLM API",
                            "Empty response content from research LLM call",
                            parse_research_json(reply.content.text, chunk)),
                 cfg)

call_email_llm(reply, research, cfg) ==
  GatewayOutcome(GatewayTry(reply, "No choices returned from email LLM API",
                            "Empty response content from email LLM call",
                            parse_email_response(reply.content.text, research)),
                 cfg)

\* The replies of the research model to a request for n prospects: arrays of
\* n - 1, n and n + 1 empty objects, an array of n whose first element is a
\* complete object or a number, text without an array, and the empty replies.
Repeat(x, n) == [a \in 1..n |-> x]
ResearchReplies(n) ==
  {ContentReply(Render(Repeat("{}", m), "plain")) : m \in {n - 1, n, n + 1}}
    \cup {ContentReply(Render(<<"{A}">> \o Repeat("{}", n - 1), "fenced")),
          ContentReply(Render(<<"7">> \o Repeat("{}", n - 1), "plain")),
          ContentReply(Render(Repeat("{}", n), "no_array"))}
    \cup EmptyReplies

\* The replies of the e-mail model to a request for n research records: n - 1, n
\* and n + 1 labelled sections, n sections after a preamble, n greeted
\* paragraphs, and the empty replies.
EmailReplies(n) ==
  {ContentReply(RenderEmail(Repeat("labelled", m), [sep |-> "labels", preamble |-> FALSE])) :
     m \in {n - 1, n, n + 1}}
    \cup {ContentReply(RenderEmail(Repeat("labelled", n),
                                   [sep |-> "labels", preamble |-> TRUE])),
          ContentReply(RenderEmail(Repeat("hi", n), [sep |-> "equals", preamble |-> FALSE]))}
    \cup EmptyReplies

\* The outcome of the parser inside a gateway call, NotCalled when the try
\* block leaves before the line that calls it.
ParserOutcome(reply, parsed) ==
  IF GatewayTry(reply, "no_choices", "empty_content", Ok(<<>>, <<>>)).ok THEN parsed
  ELSE NotCalled

\* A content of whitespace only is not empty for "if not content".
BlankReply == ContentReply(<<" ">>)

\* One gateway call on its own: any configuration, 1..MaxProspects records in
\* the argument, and any reply of the client.
GatewayStart ==
  /\ gw_pc = "call"
  /\ gw_kind \in {"research", "email"}
  /\ gw_config \in Configs
  /\ \E n \in 1..MaxProspects :
       /\ gw_arg = IF gw_kind = "research" THEN Prospects(n) ELSE ResearchResults(n)
       /\ gw_reply \in (IF gw_kind = "research" THEN ResearchReplies(n) ELSE EmailReplies(n))
                         \cup {BlankReply}
  /\ gw_out = NotCalled
  /\ gw_parser = NotCalled

GatewayCall ==
  /\ gw_pc = "call"
  /\ gw_pc' = "returned"
  /\ gw_out' = IF gw_kind = "research" THEN call_research_llm(gw_reply, gw_arg, gw_config)
               ELSE call_email_llm(gw_reply, gw_arg, gw_config)
  /\ gw_parser' = ParserOutcome(gw_reply,
                                IF gw_kind = "research"
                                THEN parse_research_json(gw_reply.content.text, gw_arg)
                                ELSE parse_email_response(gw_reply.content.text, gw_arg))
  /\ UNCHANGED <<gw_kind, gw_config, gw_arg, gw_reply>>
  /\ UNCHANGED <<jsonVars, fieldVars, cleanVars, emailVars, runVars,
                 promptVars, envVars, csvVars, laterVars>>

-----------------------------------------------------------------------------
\* EmailAutomationPipeline.process_csv_file.

\* prospects[i:i + chunk_size] for chunk_size > 0.
Chunk(all, i, chunk_size) ==
  SubSeq(all, i + 1, IF i + chunk_size > Len(all) THEN Len(all) ELSE i + chunk_size)

\* A variant of extend that puts the new items in front.
extend_front(lst, items) == items \o lst

\* list.extend
extend(lst, items) == lst \o items

\* One entry of the history of gateway calls: a call of the given kind started
\* (payload: its argument) or ended (payload: the records it returned) for the
\* chunk that starts at index at.
GatewayEvent(ev, kind, at, ok, payload) ==
  [ev |-> ev, kind |-> kind, at |-> at, ok |-> ok, payload |-> payload]

Position(pos, i) == [pos |-> pos, i |-> i]

\* Where the run goes when it enters the loop over range(0, n, chunk_size) for
\* chunk_size # 0: to the research call of the first chunk, or past the loop
\* when the range is empty.
FirstPosition(n, chunk_size) ==
  IF chunk_size > 0 /\ n > 0 THEN Position("research", 0) ELSE Position("save", 0)

\* A variant of NextPosition that starts the research call of the next chunk
\* before the e-mail call of the current one.
NextPositionResearchFirst(pos, i, n, chunk_size) ==
  IF pos = "research"
  THEN IF i + chunk_size < n THEN Position("research", i + chunk_size)
       ELSE Position("email", i)
  ELSE Position("save", i)

\* A variant of NextPosition that leaves the loop after the e-mail call of the
\* first chunk.
NextPositionSaveEarly(pos, i, n, chunk_size) ==
  IF pos = "research" THEN Position("email", i) ELSE Position("save", i)

\* Where the run goes after the gateway call at pos returned for the chunk that
\* starts at i: after the research call to the e-mail call of the same chunk,
\* after the e-mail call to the research call of the next chunk or past the loop.
NextPosition(pos, i, n, chunk_size) ==
  IF pos = "research" THEN Position("email", i)
  ELSE IF i + chunk_size < n THEN Position("research", i + chunk_size)
  ELSE Position("save", i)

NoFiles == [written |-> {}, research_csv |-> <<>>, research_md |-> <<>>, email_txt |-> <<>>]
NoResult == [returned |-> FALSE, total_prospects |-> 0]

\* _save_research_csv, _save_research_markdown and _save_email_txt: each file
\* holds one entry per record, in the order of the list.
SavedFiles(research, emails) ==
  [written |-> {"research_csv", "research_md", "email_txt"},
   research_csv |-> research, research_md |-> research, email_txt |-> emails]

\* The order in which process_csv_file saves the files.
SaveOrder == <<"research_csv", "research_md", "email_txt">>

\* What the saves can do: the first k of them succeed, and the next one, if
\* there is one, raises on opening its file.
SaveOutcomes == 0..Len(SaveOrder)
SaveError == Exc("OSError", <<"[Errno 28] No space left on device">>)

\* The files after the first k saves, k < Len(SaveOrder).
FilesSaved(research, k) ==
  [written |-> {SaveOrder[a] : a \in 1..k},
   research_csv |-> IF k >= 1 THEN research ELSE <<>>,
   research_md |-> IF k >= 2 THEN research ELSE <<>>,
   email_txt |-> <<>>]

\* os.makedirs(output_dir, exist_ok=True) raises: it stands before the try
\* block, so the error leaves process_csv_file as it is.
MakedirsError == Exc("PermissionError", <<"[Errno 13] Permission denied: ", "output_dir">>)

\* The parts of process_csv_file a run goes through, as the history phases
\* names them: "idle" before the call, "reading" (_read_csv_file), "chunk" (one
\* pass of the loop), "writing" (the three saves), "done" (the return) and
\* "failed" (an error left the method).

\* A variant of the handler that logs the error and returns what the run has
\* so far as a result.
FailReturnsPartial(e, calls, ph) ==
  /\ run_pc' = "done"
  /\ run_error' = run_error
  /\ gateway_calls' = calls
  /\ phases' = ph \o <<"writing", "done">>
  /\ files' = SavedFiles(all_research_results, all_email_results)
  /\ result' = [returned |-> TRUE, total_prospects |-> Len(prospects)]
  /\ UNCHANGED chunk_start

\* The handler "except Exception" of process_csv_file: the error is raised again.
Fail(e, calls, ph) ==
  /\ run_pc' = "failed"
  /\ run_error' = e
  /\ gateway_calls' = calls
  /\ phases' = Append(ph, "failed")
  /\ UNCHANGED <<chunk_start, files, result>>

\* The lines of process_csv_file after the loop: the three saves and the
\* return, when the first k saves succeed.
Save(k, all_prospects, all_research, all_emails, ph) ==
  IF k = Len(SaveOrder)
  THEN /\ run_pc' = "done"
       /\ files' = SavedFiles(all_research, all_emails)
       /\ result' = [returned |-> TRUE, total_prospects |-> Len(all_prospects)]
       /\ run_error' = run_error
       /\ phases' = ph \o <<"writing", "done">>
  ELSE /\ run_pc' = "failed"
       /\ files' = FilesSaved(all_research, k)
       /\ result' = result
       /\ run_error' = SaveError
       /\ phases' = ph \o <<"writing", "failed">>

\* The run goes to position nxt: it starts the gateway call there, or it writes
\* the files and returns.
Enter(nxt, all_prospects, research, all_research, all_emails, calls, ph) ==
  CASE nxt.pos = "research" ->
         /\ run_pc' = "research"
         /\ chunk_start' = nxt.i
         /\ gateway_calls' =
              Append(calls, GatewayEvent("start", "research", nxt.i, TRUE,
                                         Chunk(all_prospects, nxt.i, config.chunk_size)))
         /\ phases' = Append(ph, "chunk")
         /\ UNCHANGED <<files, result, run_error>>
    [] nxt.pos = "email" ->
         /\ run_pc' = "email"
         /\ chunk_start' = nxt.i
         /\ gateway_calls' =
              Append(calls, GatewayEvent("start", "email", nxt.i, TRUE, research))
         /\ phases' = ph
         /\ UNCHANGED <<files, result, run_error>>
    [] OTHER ->
         /\ chunk_start' = nxt.i
         /\ gateway_calls' = calls
         /\ \E k \in SaveOutcomes : Save(k, all_prospects, all_research, all_emails, ph)

RunStart ==
  /\ run_pc = "idle"
  /\ config \in Configs
  /\ csv_file \in CsvFiles
  /\ prospects = <<>>
  /\ chunk_start = 0
  /\ research_results = <<>>
  /\ all_research_results = <<>>
  /\ all_email_results = <<>>
  /\ gateway_calls = <<>>
  /\ files = NoFiles
  /\ result = NoResult
  /\ run_error = NoExc
  /\ phases = <<"idle">>

\* process_csv_file from the return of _read_csv_file to the first gateway call.
FileRead(read, ph) ==
  IF ~read.ok
  THEN /\ Fail(read.exc, gateway_calls, ph)
       /\ UNCHANGED prospects
  ELSE /\ prospects' = read.value
       /\ IF config.chunk_size = 0
          THEN Fail(Exc("ValueError", <<"range() arg 3 must not be zero">>), gateway_calls, ph)
          ELSE Enter(FirstPosition(Len(read.value), config.chunk_size),
                     read.value, <<>>, <<>>, <<>>, gateway_calls, ph)

\* process_csv_file from its call to the first gateway call: the output
\* directory is made, the file is read, the loop is entered.
StartRun ==
  /\ run_pc = "idle"
  /\ \/ /\ run_pc' = "failed"
        /\ run_error' = MakedirsError
        /\ phases' = Append(phases, "failed")
        /\ UNCHANGED <<prospects, chunk_start, gateway_calls, files, result>>
     \/ \E order \in FieldOrders :
          FileRead(_read_csv_file(csv_file, order), Append(phases, "reading"))
  /\ UNCHANGED <<config, csv_file, research_results, all_research_results,
                 all_email_results>>
  /\ UNCHANGED <<jsonVars, fieldVars, cleanVars, emailVars,
                 gwVars, promptVars, envVars, csvVars, laterVars>>

\* process_csv_file from the return of call_research_llm on.
ResearchDone(r) ==
  IF r.ok
  THEN /\ research_results' = r.value
       /\ all_research_results' = extend(all_research_results, r.value)
       /\ Enter(NextPosition("research", chunk_start, Len(prospects), config.chunk_size),
                prospects, r.value, extend(all_research_results, r.value),
                all_email_results,
                Append(gateway_calls,
                       GatewayEvent("end", "research", chunk_start, TRUE, r.value)),
                phases)
  ELSE /\ Fail(r.exc,
               Append(gateway_calls,
                      GatewayEvent("end", "research", chunk_start, FALSE, r.exc)),
               phases)
       /\ UNCHANGED <<research_results, all_research_results>>

\* The research call in flight ends: call_research_llm handles the reply, and
\* process_csv_file goes on to the next call or fails.
ResearchReturns ==
  /\ run_pc = "research"
  /\ \E reply \in ResearchReplies(Len(Chunk(prospects, chunk_start, config.chunk_size))) :
       ResearchDone(call_research_llm(reply,
                                      Chunk(prospects, chunk_start, config.chunk_size),
                                      config))
  /\ UNCHANGED <<config, csv_file, prospects, all_email_results>>
  /\ UNCHANGED <<jsonVars, fieldVars, cleanVars, emailVars,
                 gwVars, promptVars, envVars, csvVars, laterVars>>

\* process_csv_file from the return of call_email_llm on.
EmailDone(r) ==
  IF r.ok
  THEN /\ all_email_results' = extend(all_email_results, r.value)
       /\ Enter(NextPosition("email", chunk_start, Len(prospects), config.chunk_size),
                prospects, research_results, all_research_results,
                extend(all_email_results, r.value),
                Append(gateway_calls,
                       GatewayEvent("end", "email", chunk_start, TRUE, r.value)),
                phases)
  ELSE /\ Fail(r.exc,
               Append(gateway_calls,
                      GatewayEvent("end", "email", chunk_start, FALSE, r.exc)),
               phases)
       /\ UNCHANGED all_email_results

\* The e-mail call in flight ends: call_email_llm handles the reply, and
\* process_csv_file goes on to the next chunk, writes the files and returns, or
\* fails.
EmailReturns ==
  /\ run_pc = "email"
  /\ \E reply \in EmailReplies(Len(research_results)) :
       EmailDone(call_email_llm(reply, research_results, config))
  /\ UNCHANGED <<config, csv_file, prospects, research_results, all_research_results>>
  /\ UNCHANGED <<jsonVars, fieldVars, cleanVars, emailVars,
                 gwVars, promptVars, envVars, csvVars, laterVars>>

RunIdle ==
  /\ run_pc = "off"
  /\ config = PipelineConfig(1, DefaultMaxRetries, DefaultTimeoutSeconds)
  /\ csv_file = [header |-> "ok", rows |-> <<>>]
  /\ prospects = <<>>
  /\ chunk_start = 0
  /\ research_results = <<>>
  /\ all_research_results = <<>>
  /\ all_email_results = <<>>
  /\ gateway_calls = <<>>
  /\ files = NoFiles
  /\ result = NoResult
  /\ run_error = NoExc
  /\ phases = <<>>

-----------------------------------------------------------------------------
\* Properties of process_csv_file (checked under Spec).

\* The calls of one kind started, and ended, so far, in order.
Started(kind) == SelectSeq(gateway_calls, LAMBDA e : e.ev = "start" /\ e.kind = kind)
Ended(kind) == SelectSeq(gateway_calls, LAMBDA e : e.ev = "end" /\ e.kind = kind)

\* C1: after process_csv_file returns successfully for N surviving prospects and a
\* chunk size C >= 1, the accumulated research list and the accumulated e-mail
\* list each hold N records, and the record at global position k*C + j is record
\* j of chunk k, produced from the prospect at that position: no prospect is
\* skipped, duplicated or reordered across chunks.
C1_AccumulatedInInputOrder ==
  (run_pc = "done" /\ config.chunk_size >= 1) =>
    LET N == Len(prospects)
        C == config.chunk_size
    IN /\ Len(all_research_results) = N
       /\ Len(all_email_results) = N
       /\ files = SavedFiles(all_research_results, all_email_results)
       /\ \A p \in 0..(N - 1) :
            LET k == p \div C
                j == p % C
            IN /\ Started("research")[k + 1].at = k * C
               /\ Started("research")[k + 1].payload[j + 1] = prospects[p + 1]
               /\ all_research_results[p + 1] = Ended("research")[k + 1].payload[j + 1]
               /\ all_research_results[p + 1]["linkedin_url"] = prospects[p + 1].linkedin_url
               /\ Started("email")[k + 1].payload[j + 1] = all_research_results[p + 1]
               /\ all_email_results[p + 1] = Ended("email")[k + 1].payload[j + 1]
               /\ all_email_results[p + 1].person_name
                    = all_research_results[p + 1]["person_name"]

\* A run over three surviving prospects in chunks of two returned.
C1_Witness ==
  /\ run_pc = "done"
  /\ config.chunk_size = 2
  /\ Len(prospects) = 3
  /\ Len(all_research_results) = 3
  /\ Len(all_email_results) = 3
  /\ Len(csv_file.rows) > 3 - 1
  /\ result.returned

\* ceil(n / c) for n >= 0 and c # 0.
CeilDiv(n, c) ==
  IF c > 0 THEN (n + c - 1) \div c ELSE 0 - (n \div (0 - c))

\* C9: a successful run over N prospects with chunk size C issued exactly
\* ceil(N/C) research requests and ceil(N/C) e-mail requests, and no request
\* follows a failed one, whatever max_retries is.
C9_TwoRequestsPerChunk ==
  /\ run_pc = "done" =>
       /\ Len(Started("research")) = CeilDiv(Len(prospects), config.chunk_size)
       /\ Len(Started("email")) = CeilDiv(Len(prospects), config.chunk_size)
  /\ \A a \in 1..Len(gateway_calls) :
       (gateway_calls[a].ev = "end" /\ ~gateway_calls[a].ok) => a = Len(gateway_calls)

\* The calls started and not ended after the first a entries of the history.
InFlight(a) ==
  Cardinality({b \in 1..a : gateway_calls[b].ev = "start"})
    - Cardinality({b \in 1..a : gateway_calls[b].ev = "end"})

\* C10: at most one gateway call is in flight at any time; a call that ends is
\* the call started last; an e-mail call starts right after the research call
\* of the same chunk returned, on exactly the records that call returned; and
\* a research call other than the first starts right after the e-mail call of
\* the chunk before returned.
C10_OneCallInFlight ==
  \A a \in 1..Len(gateway_calls) :
    LET e == gateway_calls[a]
    IN /\ InFlight(a) \in {0, 1}
       /\ e.ev = "end" =>
            /\ a > 1
            /\ gateway_calls[a - 1].ev = "start"
            /\ gateway_calls[a - 1].kind = e.kind
            /\ gateway_calls[a - 1].at = e.at
       /\ (e.ev = "start" /\ e.kind = "email") =>
            /\ a > 1
            /\ gateway_calls[a - 1].ev = "end"
            /\ gateway_calls[a - 1].kind = "research"
            /\ gateway_calls[a - 1].ok
            /\ gateway_calls[a - 1].at = e.at
            /\ e.payload = gateway_calls[a - 1].payload
       /\ (e.ev = "start" /\ e.kind = "research" /\ a > 1) =>
            /\ gateway_calls[a - 1].ev = "end"
            /\ gateway_calls[a - 1].kind = "email"
            /\ gateway_calls[a - 1].ok
            /\ gateway_calls[a - 1].at < e.at

\* The e-mail call of the second chunk is in flight.
C10_Witness ==
  /\ run_pc = "email"
  /\ chunk_start > 0
  /\ Len(gateway_calls) = 7
  /\ InFlight(Len(gateway_calls)) = 1

\* Whether entry a of the history is a gateway call that ended in a failure.
FailedCall(a) == gateway_calls[a].ev = "end" /\ ~gateway_calls[a].ok

\* C11: when a gateway call (the parser it runs included) failed while a chunk
\* was processed, no call was issued after it, none of the three output files
\* is written, no result is returned, and process_csv_file raised the error
\* that call raised.
C11_FailureAbortsRun ==
  \A a \in 1..Len(gateway_calls) :
    FailedCall(a) =>
      /\ a = Len(gateway_calls)
      /\ files = NoFiles
      /\ ~result.returned
      /\ run_pc = "failed"
      /\ run_error = gateway_calls[a].payload

\* The research call of the second chunk failed in the parser, after the
\* first chunk went through both calls.
C11_Witness ==
  /\ run_pc = "failed"
  /\ Len(gateway_calls) = 6
  /\ FailedCall(6)
  /\ gateway_calls[6].kind = "research"
  /\ IsJsonIncomplete(run_error)
  /\ Len(all_email_results) > 0
  /\ files = NoFiles

\* range(0, n, c) for c # 0: the indices at which the loop starts a chunk.
RangeStarts(n, c) == IF c > 0 THEN {i \in 0..(n - 1) : i % c = 0} ELSE {}

\* The steps between the parts of a run: idle -> reading -> chunk (zero or
\* more times) -> writing -> done, and failed after every part but done.
PhaseSteps ==
  {<<"idle", "reading">>, <<"reading", "chunk">>, <<"reading", "writing">>,
   <<"chunk", "chunk">>, <<"chunk", "writing">>, <<"writing", "done">>}
    \cup {<<p, "failed">> : p \in {"idle", "reading", "chunk", "writing"}}

LastPhase == phases[Len(phases)]

\* The part of C12 that is about one state.
PhasesInOrder ==
  /\ phases[1] = "idle"
  /\ \A a \in 1..(Len(phases) - 1) : <<phases[a], phases[a + 1]>> \in PhaseSteps
  /\ (\E a \in 1..Len(phases) : phases[a] = "writing") =>
       /\ InFlight(Len(gateway_calls)) = 0
       /\ Cardinality({a \in 1..Len(phases) : phases[a] = "chunk"})
            = Cardinality(RangeStarts(Len(prospects), config.chunk_size))
       /\ \A i \in RangeStarts(Len(prospects), config.chunk_size) :
            \A kind \in {"research", "email"} :
              \E a \in 1..Len(gateway_calls) :
                /\ gateway_calls[a].ev = "end" /\ gateway_calls[a].ok
                /\ gateway_calls[a].kind = kind /\ gateway_calls[a].at = i
  /\ LastPhase = "done" =>
       /\ files.written = {"research_csv", "research_md", "email_txt"}
       /\ result.returned
  /\ run_pc \in {"done", "failed"} <=> LastPhase \in {"done", "failed"}

\* C12: a run moves only along idle -> reading -> chunk (zero or more times) ->
\* writing -> done, or to failed from any part but done; it starts writing only
\* when every chunk of the loop has completed its research and its e-mail call;
\* it is done only with the three files written; and once done or failed
\* nothing of the run changes any more.
C12_RunStateMachine ==
  /\ []PhasesInOrder
  /\ [][(run_pc \in {"done", "failed"}) => (UNCHANGED runVars)]_vars

\* A run over two chunks went through every part and returned.
C12_Witness ==
  /\ run_pc = "done"
  /\ phases = <<"idle", "reading", "chunk", "chunk", "writing", "done">>
  /\ Len(gateway_calls) = 8

-----------------------------------------------------------------------------
\* config.get_research_prompt and get_email_prompt, and the cache of templates.

\* An Optional[str]: None or a string.
None == [none |-> TRUE, s |-> ""]
Some(str) == [none |-> FALSE, s |-> str]

\* bool(x) for an Optional[str].
TruthyStr(x) == ~x.none /\ x.s # ""

\* The fields of PipelineConfig the prompt functions read.
PromptConfig(use_prompt_templates, research_prompt_fqn, email_prompt_fqn) ==
  [use_prompt_templates |-> use_prompt_templates,
   research_prompt_fqn |-> research_prompt_fqn,
   email_prompt_fqn |-> email_prompt_fqn]

\* The built-in prompt texts.
RESEARCH_SYSTEM_PROMPT == <<"RESEARCH_SYSTEM_PROMPT">>
EMAIL_SYSTEM_PROMPT == <<"EMAIL_SYSTEM_PROMPT">>

\* ttl of get_cached_prompt_template, in seconds.
Ttl == 600

\* The most calls of the prompt functions in one run of the model.
MaxPromptCalls == 3

\* What the template service does with a request: it answers with the
\* template's text, which is version k of it at the k-th request, or it fails.
ServiceAnswers(k) == {[ok |-> TRUE, version |-> k], [ok |-> FALSE, version |-> k]}
TemplateText(fqn, k) == <<"template ", fqn, " version ", NumStr(k)>>

\* The three module globals.
Cache(research, email, last_fetched) ==
  [research |-> research, email |-> email, last_fetched |-> last_fetched]

get_prompt_template(fqn, answer) ==
  IF answer.ok THEN Ok(TemplateText(fqn, answer.version), <<>>)
  ELSE Raise(Exc("Exception",
                 <<"Failed to fetch prompt template '", fqn, "': ", "service error">>), <<>>)

\* get_cached_prompt_template called at time t, when a request to the service
\* takes fetch_time: the outcome, the globals after the call, and whether the
\* service was contacted.
get_cached_prompt_template(fqn, prompt_type, cache, t, answer, fetch_time) ==
  IF t - cache.last_fetched > Ttl
  THEN LET fetched == get_prompt_template(fqn, answer)
           stored == [cache EXCEPT ![prompt_type] = fetched.value,
                                   !.last_fetched = t + fetch_time]
       IN IF fetched.ok
          THEN [out |-> Ok(stored[prompt_type], <<>>), cache |-> stored, contacted |-> TRUE]
          ELSE [out |-> fetched, cache |-> cache, contacted |-> TRUE]
  ELSE [out |-> Ok(cache[prompt_type], <<>>), cache |-> cache, contacted |-> FALSE]

\* A variant of get_prompt without the handler of the try block.
get_prompt_no_fallback(use, fqn, prompt_type, default, cache, t, answer, fetch_time) ==
  IF use /\ TruthyStr(fqn)
  THEN get_cached_prompt_template(fqn.s, prompt_type, cache, t, answer, fetch_time)
  ELSE [out |-> Ok(default, <<>>), cache |-> cache, contacted |-> FALSE]

\* The body shared by get_research_prompt and get_email_prompt.
get_prompt(use, fqn, prompt_type, default, cache, t, answer, fetch_time) ==
  IF use /\ TruthyStr(fqn)
  THEN LET r == get_cached_prompt_template(fqn.s, prompt_type, cache, t, answer, fetch_time)
       IN IF r.out.ok THEN r
          ELSE [out |-> Ok(default, <<"Warning: Failed to fetch ", prompt_type,
                                      " prompt template, using fallback: ">> \o r.out.exc.msg),
                cache |-> r.cache, contacted |-> r.contacted]
  ELSE [out |-> Ok(default, <<>>), cache |-> cache, contacted |-> FALSE]

get_research_prompt(cfg, cache, t, answer, fetch_time) ==
  get_prompt(cfg.use_prompt_templates, cfg.research_prompt_fqn, "research",
             RESEARCH_SYSTEM_PROMPT, cache, t, answer, fetch_time)

get_email_prompt(cfg, cache, t, answer, fetch_time) ==
  get_prompt(cfg.use_prompt_templates, cfg.email_prompt_fqn, "email",
             EMAIL_SYSTEM_PROMPT, cache, t, answer, fetch_time)

\* The identifiers of a configuration: RESEARCH_PROMPT_FQN and EMAIL_PROMPT_FQN
\* unset, set to the empty string, or set.
Fqns(name) == {None, Some(""), Some(name)}

\* The time between two calls, and the time a request to the service takes.
Delays == {1, Ttl, Ttl + 1}
FetchTimes == {0, 1}

\* A process that has made no call yet: the globals hold their initial values
\* and the clock is far past the epoch.
PromptStart ==
  /\ prompt_pc = "running"
  /\ prompt_config \in {PromptConfig(u, r, e) :
                          u \in BOOLEAN, r \in Fqns("research_fqn"), e \in Fqns("email_fqn")}
  /\ CACHED_RESEARCH_PROMPT = <<>>
  /\ CACHED_EMAIL_PROMPT = <<>>
  /\ CACHED_PROMPT_LAST_FETCHED = 0
  /\ now = 2 * Ttl
  /\ fetches = <<>>
  /\ system_prompts = <<>>

\* The first lines of the try block of a gateway call: the prompt function
\* runs at time t and its result is the system prompt of the request; an error
\* of the prompt function would end the call before the request.
PromptCalled(prompt_type, t, answer, r) ==
  /\ CACHED_RESEARCH_PROMPT' = r.cache.research
  /\ CACHED_EMAIL_PROMPT' = r.cache.email
  /\ CACHED_PROMPT_LAST_FETCHED' = r.cache.last_fetched
  /\ now' = IF r.cache.last_fetched > t THEN r.cache.last_fetched ELSE t
  /\ fetches' = IF r.contacted
                THEN Append(fetches, [prompt_type |-> prompt_type, at |-> t, ok |-> answer.ok,
                                      done |-> IF answer.ok THEN r.cache.last_fetched ELSE t,
                                      text |-> get_prompt_template(
                                                 prompt_config[prompt_type \o "_prompt_fqn"].s,
                                                 answer).value])
                ELSE fetches
  /\ system_prompts' = Append(system_prompts,
                              [prompt_type |-> prompt_type, at |-> t, sent |-> r.out.ok,
                               contacted |-> r.contacted,
                               failed |-> r.contacted /\ ~answer.ok,
                               text |-> r.out.value])
  /\ UNCHANGED <<prompt_pc, prompt_config>>
  /\ UNCHANGED <<jsonVars, fieldVars, cleanVars, emailVars, runVars,
                 gwVars, envVars, csvVars, laterVars>>

ResearchPromptCall ==
  /\ prompt_pc = "running"
  /\ Len(system_prompts) < MaxPromptCalls
  /\ \E delay \in Delays, answer \in ServiceAnswers(Len(fetches) + 1),
        fetch_time \in FetchTimes :
       PromptCalled("research", now + delay, answer,
                    get_research_prompt(prompt_config,
                                        Cache(CACHED_RESEARCH_PROMPT, CACHED_EMAIL_PROMPT,
                                              CACHED_PROMPT_LAST_FETCHED),
                                        now + delay, answer, fetch_time))

EmailPromptCall ==
  /\ prompt_pc = "running"
  /\ Len(system_prompts) < MaxPromptCalls
  /\ \E delay \in Delays, answer \in ServiceAnswers(Len(fetches) + 1),
        fetch_time \in FetchTimes :
       PromptCalled("email", now + delay, answer,
                    get_email_prompt(prompt_config,
                                     Cache(CACHED_RESEARCH_PROMPT, CACHED_EMAIL_PROMPT,
                                           CACHED_PROMPT_LAST_FETCHED),
                                     now + delay, answer, fetch_time))

-----------------------------------------------------------------------------
\* PipelineConfig.from_env and EmailAutomationPipeline.__init__.

\* The defaults of the dataclass PipelineConfig; the credential it holds is
\* known by a name only.
DefaultChunkSize == 5
DefaultApiKey == "DEFAULT_API_KEY"
DefaultBaseUrl == "https://llm-gateway.truefoundry.com"
DefaultReasoningModel == "openai-main/gpt-5"

\* The variables of the environment that from_env reads and the model varies;
\* the others are unset.
EnvNames ==
  {"TFY_API_KEY", "TFY_BASE_URL", "TFY_REASONING_MODEL", "USE_PROMPT_TEMPLATES", "CHUNK_SIZE"}

EnvValues(name) ==
  CASE name = "TFY_API_KEY" -> {None, Some(""), Some("env_key")}
    [] name = "TFY_BASE_URL" -> {None, Some(""), Some("env_url")}
    [] name = "TFY_REASONING_MODEL" -> {None, Some(""), Some("env_model")}
    [] name = "USE_PROMPT_TEMPLATES" -> {None, Some("True"), Some("1")}
    [] OTHER -> {None, Some("2"), Some("0"), Some("-1"), Some("abc")}

\* os.getenv(name, default)
getenv(env, name, default) == IF env[name].none THEN default ELSE env[name]

\* int(s) for the strings of the model: the integer, or None for a string that
\* is no integer literal.
IntLiterals == {<<"5", 5>>, <<"2", 2>>, <<"0", 0>>, <<"-1", -1>>}
PyInt(str) ==
  IF \E l \in IntLiterals : l[1] = str
  THEN Ok((CHOOSE l \in IntLiterals : l[1] = str)[2], <<>>)
  ELSE Raise(Exc("ValueError", <<"invalid literal for int() with base 10: '", str, "'">>),
             <<>>)

\* str.lower() for the values of USE_PROMPT_TEMPLATES.
Lower(str) == IF str = "True" THEN "true" ELSE str

\* PipelineConfig.from_env on the environment env.
from_env(env) ==
  LET key == getenv(env, "TFY_API_KEY", None)
      chunk_size == PyInt(getenv(env, "CHUNK_SIZE", Some(NumStr(DefaultChunkSize))).s)
  IN IF ~chunk_size.ok THEN chunk_size
     ELSE Ok([api_key |-> IF TruthyStr(key) THEN key.s ELSE DefaultApiKey,
              base_url |-> getenv(env, "TFY_BASE_URL", Some(DefaultBaseUrl)).s,
              reasoning_model |->
                getenv(env, "TFY_REASONING_MODEL", Some(DefaultReasoningModel)).s,
              research_prompt_fqn |-> None,
              email_prompt_fqn |-> None,
              use_prompt_templates |->
                Lower(getenv(env, "USE_PROMPT_TEMPLATES", Some("false")).s) = "true",
              chunk_size |-> chunk_size.value,
              max_retries |-> DefaultMaxRetries,
              timeout_seconds |-> DefaultTimeoutSeconds], <<>>)

EnvStart ==
  /\ env_pc = "start"
  /\ environ \in [EnvNames -> UNION {EnvValues(name) : name \in EnvNames}]
  /\ \A name \in EnvNames : environ[name] \in EnvValues(name)
  /\ from_env_out = NotCalled
  /\ gateway_built = FALSE

\* EmailAutomationPipeline() without a configuration: from_env, then
\* TrueFoundryGateway(self.config), which builds the client from api_key and
\* base_url.
PipelineInit ==
  /\ env_pc = "start"
  /\ env_pc' = "loaded"
  /\ from_env_out' = from_env(environ)
  /\ gateway_built' = from_env_out'.ok
  /\ UNCHANGED environ
  /\ UNCHANGED <<jsonVars, fieldVars, cleanVars, emailVars, runVars,
                 gwVars, promptVars, csvVars, laterVars>>

-----------------------------------------------------------------------------
\* EmailAutomationPipeline._save_research_csv: csv.DictWriter with the default
\* dialect on a file opened with newline=''.

Quote == "\""
Comma == ","

\* The sequences of ss one after the other.
RECURSIVE Concat(_)
Concat(ss) ==
  IF Len(ss) = 0 THEN <<>>
  ELSE IF Len(ss) = 1 THEN ss[1]
  ELSE Concat(SubSeq(ss, 1, Len(ss) \div 2)) \o Concat(SubSeq(ss, Len(ss) \div 2 + 1, Len(ss)))

\* QUOTE_MINIMAL: a field is quoted when it holds the delimiter, the quote
\* character or a character of the line terminator "\r\n".
NeedsQuote(v) == \E a \in 1..Len(v) : v[a] \in {Comma, Quote, "\r", "\n"}

\* A field as the writer writes it: quoted fields have their quotes doubled.
WrittenField(v) ==
  IF NeedsQuote(v)
  THEN <<Quote>> \o Concat([a \in 1..Len(v) |-> IF v[a] = Quote THEN <<Quote, Quote>>
                                                 ELSE <<v[a]>>]) \o <<Quote>>
  ELSE v

\* writer.writerow: the fields separated by commas, then "\r\n".
writerow(values) ==
  Concat([a \in 1..Len(values) |->
            (IF a = 1 THEN <<>> ELSE <<Comma>>) \o WrittenField(values[a])])
    \o <<"\r", "\n">>

\* The text of the file _save_research_csv writes: the header row of
\* get_csv_headers, then one row per record with the fields in that order.
_save_research_csv(results) ==
  writerow([a \in 1..Len(ResearchFields) |-> <<ResearchFields[a]>>])
    \o Concat([i \in 1..Len(results) |->
                 writerow([a \in 1..Len(ResearchFields) |->
                             results[i][ResearchFields[a]]])])

-----------------------------------------------------------------------------
\* LLMResponseParser.parse_research_csv: _clean_csv_content, csv.DictReader and
\* _create_research_output.

FenceCsv == <<Backtick, Backtick, Backtick, "csv">>

_clean_csv_content(csv_content) == Strip(ReSub(Fence, ReSub(FenceCsv, csv_content)))

\* The first index >= i of s whose token is in S, or is not in S; Len(s) + 1
\* when there is none.
FirstIn(s, i, S) ==
  IF \E j \in i..Len(s) : s[j] \in S
  THEN CHOOSE j \in i..Len(s) : s[j] \in S /\ \A k \in i..(j - 1) : s[k] \notin S
  ELSE Len(s) + 1

FirstNotIn(s, i, S) ==
  IF \E j \in i..Len(s) : s[j] \notin S
  THEN CHOOSE j \in i..Len(s) : s[j] \notin S /\ \A k \in i..(j - 1) : s[k] \in S
  ELSE Len(s) + 1

\* Inside a quoted field opened at index open: the start of the run of quotes
\* that ends at k, and whether the quote at k closes the field (a quote that
\* is not the first of a doubled pair and is not followed by a quote).
QuoteRunStart(s, open, k) ==
  CHOOSE p \in (open + 1)..k :
    (\A t \in p..k : s[t] = Quote) /\ (p = open + 1 \/ s[p - 1] # Quote)

ClosesQuote(s, open, k) ==
  /\ s[k] = Quote
  /\ k = Len(s) \/ s[k + 1] # Quote
  /\ (k - QuoteRunStart(s, open, k) + 1) % 2 = 1

\* The text between the opening quote and index close, each doubled quote
\* taken once.
Unquoted(s, open, close) ==
  LET kept == SelectSeq([a \in 1..(close - open - 1) |-> open + a],
                        LAMBDA t : s[t] # Quote
                                     \/ (t - QuoteRunStart(s, open, t)) % 2 = 1)
  IN [a \in 1..Len(kept) |-> s[kept[a]]]

\* The reader after the end of a field at index e of s: at a delimiter the
\* record goes on; at "\n" or at the end of the text the record ends; after
\* "\r" only "\r", "\n" or the end of the text may follow, anything else is
\* the error "new-line character seen in unquoted field".
FieldEnd(s, e, value) ==
  IF e > Len(s) THEN [value |-> value, next |-> e, end |-> "record"]
  ELSE IF s[e] = Comma THEN [value |-> value, next |-> e + 1, end |-> "field"]
  ELSE LET n == FirstNotIn(s, e, {"\r"})
       IN IF n > Len(s) THEN [value |-> value, next |-> n, end |-> "record"]
          ELSE IF s[n] = "\n" THEN [value |-> value, next |-> n + 1, end |-> "record"]
          ELSE [value |-> value, next |-> n, end |-> "error"]

\* One field read from index i of s, where the reader starts a field: leading
\* spaces are dropped with skipinitialspace; a quote then opens a quoted part
\* that runs to its closing quote or to the end of the text; what follows up
\* to the next delimiter or line end belongs to the field as it stands.
ReadField(s, i, skipinitialspace) ==
  LET j == IF skipinitialspace THEN FirstNotIn(s, i, {" "}) ELSE i
  IN IF j <= Len(s) /\ s[j] = Quote
     THEN IF \E k \in (j + 1)..Len(s) : ClosesQuote(s, j, k)
          THEN LET close == CHOOSE k \in (j + 1)..Len(s) :
                              /\ ClosesQuote(s, j, k)
                              /\ \A t \in (j + 1)..(k - 1) : ~ClosesQuote(s, j, t)
                   e == FirstIn(s, close + 1, {Comma, "\r", "\n"})
               IN FieldEnd(s, e, Unquoted(s, j, close) \o SubSeq(s, close + 1, e - 1))
          ELSE [value |-> Unquoted(s, j, Len(s) + 1), next |-> Len(s) + 1, end |-> "record"]
     ELSE LET e == FirstIn(s, j, {Comma, "\r", "\n"})
          IN FieldEnd(s, e, SubSeq(s, j, e - 1))

\* The fields of the record that starts at index i, after the fields acc.
RECURSIVE ReadFields(_, _, _, _)
ReadFields(s, i, skipinitialspace, acc) ==
  LET f == ReadField(s, i, skipinitialspace)
  IN IF f.end = "field" THEN ReadFields(s, f.next, skipinitialspace, Append(acc, f.value))
     ELSE [fields |-> Append(acc, f.value), next |-> f.next, error |-> f.end = "error"]

\* One record: a line that starts with a line end is a record without fields.
ReadRecord(s, i, skipinitialspace) ==
  IF s[i] \in {"\r", "\n"}
  THEN LET f == FieldEnd(s, i, <<>>)
       IN [fields |-> <<>>, next |-> f.next, error |-> f.end = "error"]
  ELSE ReadFields(s, i, skipinitialspace, <<>>)

CsvError ==
  Exc("Error", <<"new-line character seen in unquoted field - do you need to open the file",
                 " in universal-newline mode?">>)

\* csv.reader over the text from index i on: the records read, and the error
\* that ended the reading if there was one.
RECURSIVE ReadRecords(_, _, _, _)
ReadRecords(s, i, skipinitialspace, acc) ==
  IF i > Len(s) THEN Ok(acc, <<>>)
  ELSE LET r == ReadRecord(s, i, skipinitialspace)
       IN IF r.error THEN [ok |-> FALSE, value |-> acc, exc |-> CsvError, log |-> <<>>]
          ELSE ReadRecords(s, r.next, skipinitialspace, Append(acc, r.fields))

\* csv.DictReader: the first record holds the field names; records without
\* fields are skipped; each of the others is a row, a dict built from the
\* field names and the cells of the record.
DictRow(fieldnames, cells) == [fieldnames |-> fieldnames, cells |-> cells]

DictRows(read) ==
  LET fieldnames == IF Len(read.value) = 0 THEN <<>> ELSE read.value[1]
      records == SelectSeq(IF Len(read.value) = 0 THEN <<>> ELSE Tail(read.value),
                           LAMBDA r : r # <<>>)
  IN [fieldnames |-> fieldnames,
      rows |-> [a \in 1..Len(records) |-> DictRow(fieldnames, records[a])],
      ok |-> read.ok, exc |-> read.exc]

\* row.get(name, default) on the dict DictReader builds from a row: the cell
\* under the last column of that name, None when the row has no cell for it,
\* the default when no column has that name.
RowGet(fieldnames, row, name, default) ==
  LET columns == {a \in 1..Len(fieldnames) : fieldnames[a] = <<name>>}
  IN IF columns = {} THEN Some(default)
     ELSE LET a == CHOOSE a \in columns : \A b \in columns : b <= a
          IN IF a > Len(row) THEN None ELSE Some(row[a])

\* The defaults of _create_research_output for a column the text lacks.
ResearchDefault(f, prospect) ==
  CASE f \in {"person_name", "company_name", "linkedin_url"} -> <<prospect[f]>>
    [] f = "general_report" -> <<"To be researched">>
    [] f = "ai_ml_initiatives" -> <<"AI initiatives to be researched">>
    [] f = "key_challenges_solving" -> <<"Technical challenges to be identified">>
    [] f = "how_truefoundry_can_help" -> <<"Infrastructure unification and MLOps">>
    [] f = "personal_details" -> <<"Professional interests to be researched">>
    [] OTHER -> <<"NA">>

_create_research_output(fieldnames, row, prospect) ==
  [f \in ResearchFieldSet |-> RowGet(fieldnames, row, f, ResearchDefault(f, prospect))]

CsvIncomplete(m, n) ==
  Exc("Exception", <<"CSV parsing incomplete: Only ", NumStr(m), " rows parsed, expected ",
                     NumStr(n)>>)

\* The loop of parse_research_csv over the prospects.
CsvResults(parsed_rows, pros) ==
  IF Len(parsed_rows) < Len(pros)
  THEN Raise(CsvIncomplete(Len(parsed_rows), Len(pros)), <<>>)
  ELSE Ok([i \in 1..Len(pros) |->
             _create_research_output(parsed_rows[i].fieldnames, parsed_rows[i].cells,
                                     pros[i])],
          <<>>)

\* parse_research_csv: when the reader fails, the rows read so far stay, and a
\* second reader without skipinitialspace reads the text from its start and
\* adds its rows; when that one fails too, the first error is raised.
parse_research_csv(csv_content, pros) ==
  LET cleaned == _clean_csv_content(csv_content)
      first == DictRows(ReadRecords(cleaned, 1, TRUE, <<>>))
      alt == DictRows(ReadRecords(cleaned, 1, FALSE, <<>>))
  IN IF first.ok THEN CsvResults(first.rows, pros)
     ELSE IF ~alt.ok THEN Raise(first.exc, <<>>)
     ELSE CsvResults(first.rows \o alt.rows, pros)

\* The most records of a list that is written and read back.
MaxCsvRecords == 2

\* The values a field of a record takes: plain text, the empty string, text
\* with a delimiter, a quote, a line feed, a carriage return, a leading or
\* trailing space, a fence of three backticks before or after text, and a
\* delimiter after a leading space.
CsvValues ==
  {<<"x">>, <<>>, <<"a", Comma, "b">>, <<"a", Quote, "b">>, <<Quote, "x", Quote>>,
   <<"a", "\n", "b">>, <<"a", "\r", "b">>, <<" ", "x">>, <<"x", " ">>,
   Fence \o <<"x">>, <<"x">> \o Fence, <<" ", "a", Comma, "b">>}

\* The fields the model varies: the first, a middle and the last column.
VariedFields == {"person_name", "general_report", "breakage_claims_rollout_governance"}

\* The record of prospect i whose field f holds v; the other fields hold what
\* the parsers give them.
CsvRecord(i, f, v) ==
  [g \in ResearchFieldSet |->
     IF g = f THEN v
     ELSE IF g \in {"person_name", "company_name", "linkedin_url"} THEN <<Prospect(i)[g]>>
     ELSE <<"NA">>]

CsvStart ==
  /\ csv_pc = "save"
  /\ \E n \in 0..MaxCsvRecords :
       \E fs \in [1..n -> VariedFields] : \E vs \in [1..n -> CsvValues] :
         csv_records = [i \in 1..n |-> CsvRecord(i, fs[i], vs[i])]
  /\ csv_written = <<>>
  /\ csv_parsed = NotCalled

SaveResearchCsv ==
  /\ csv_pc = "save"
  /\ csv_pc' = "saved"
  /\ csv_written' = _save_research_csv(csv_records)
  /\ UNCHANGED <<csv_records, csv_parsed>>
  /\ UNCHANGED <<jsonVars, fieldVars, cleanVars, emailVars, runVars,
                 gwVars, promptVars, envVars, laterVars>>

\* parse_research_csv on the written text and the prospects of the records.
ParseResearchCsv ==
  /\ csv_pc = "saved"
  /\ csv_pc' = "parsed"
  /\ csv_parsed' = parse_research_csv(csv_written, Prospects(Len(csv_records)))
  /\ UNCHANGED <<csv_records, csv_written>>
  /\ UNCHANGED <<jsonVars, fieldVars, cleanVars, emailVars, runVars,
                 gwVars, promptVars, envVars, laterVars>>

-----------------------------------------------------------------------------
\* CSV responses: the texts parse_research_csv is checked on, with the header
\* and the rows each was rendered from.

\* The header of a response: every column, or the first four only.
ResponseHeaders == {"full", "narrow"}
HeaderFields(header) ==
  IF header = "full" THEN ResearchFields ELSE SubSeq(ResearchFields, 1, 4)

\* The kinds of data row: a cell for every column; cells for the first two
\* columns only; a space after every delimiter; and a row whose second and
\* third cell read  "a,"b\rc"  after a space: an opening quote after the space
\* for a reader that skips it, a quoted third cell for one that does not.
ResponseRowKinds == {"full", "short", "padded", "split"}

\* The cell of data row j under column f.
ResponseCell(f, j) ==
  IF f \in {"person_name", "company_name", "linkedin_url"} THEN <<Prospect(j)[f]>>
  ELSE <<"value ", NumStr(j)>>

SplitCells == <<" ", Quote, "a", Comma, Quote, "b", "\r", "c", Quote>>

ResponseRow(kind, fields, j) ==
  CASE kind = "full" ->
         Concat([a \in 1..Len(fields) |->
                   (IF a = 1 THEN <<>> ELSE <<Comma>>) \o ResponseCell(fields[a], j)])
    [] kind = "short" -> ResponseCell(fields[1], j) \o <<Comma>> \o ResponseCell(fields[2], j)
    [] kind = "padded" ->
         Concat([a \in 1..Len(fields) |->
                   (IF a = 1 THEN <<>> ELSE <<Comma, " ">>) \o ResponseCell(fields[a], j)])
    [] OTHER ->
         ResponseCell(fields[1], j) \o <<Comma>> \o SplitCells
           \o Concat([a \in 1..(Len(fields) - 3) |->
                        <<Comma>> \o ResponseCell(fields[a + 3], j)])

RenderCsv(shape) ==
  (IF shape.fence THEN FenceCsv \o <<"\n">> ELSE <<>>)
    \o Concat([a \in 1..Len(HeaderFields(shape.header)) |->
                 (IF a = 1 THEN <<>> ELSE <<Comma>>) \o <<HeaderFields(shape.header)[a]>>])
    \o <<"\n">>
    \o Concat([j \in 1..Len(shape.rows) |->
                 ResponseRow(shape.rows[j], HeaderFields(shape.header), j) \o <<"\n">>])
    \o (IF shape.fence THEN Fence ELSE <<>>)

RowsStart ==
  /\ rows_pc = "call"
  /\ llm_rows \in [header : ResponseHeaders, fence : BOOLEAN,
                    rows : SeqsUpTo(ResponseRowKinds, MaxRows)]
  /\ rows_content = RenderCsv(llm_rows)
  /\ rows_prospects \in {Prospects(n) : n \in 0..MaxProspects}
  /\ rows_out = NotCalled

\* parse_research_csv(csv_content, original_prospects), from call to return or
\* raise.
ParseResearchCsvResponse ==
  /\ rows_pc = "call"
  /\ rows_out' = parse_research_csv(rows_content, rows_prospects)
  /\ rows_pc' = "returned"
  /\ UNCHANGED <<llm_rows, rows_content, rows_prospects>>
  /\ UNCHANGED <<jsonVars, fieldVars, cleanVars, emailVars, runVars,
                 gwVars, promptVars, envVars, csvVars, sectionVars, processVars>>

-----------------------------------------------------------------------------
\* unified_app.process_prospects: the handler of POST /process.

\* An HTTPException, or the answer 200 of a handler that returns.
Http(status_code, detail) == [status_code |-> status_code, detail |-> detail]
NoResponse == Http(0, <<>>)

\* "api" in error_msg, "openai" in error_msg: the pieces of the model's
\* messages that hold the word when put in lower case.
ApiTokens ==
  {"LLM API call timed out after ", "No choices returned from LLM API",
   "No choices returned from email LLM API"}
OpenaiTokens == {}
HasWord(msg, tokens) == \E a \in 1..Len(msg) : msg[a] \in tokens

\* The handler "except Exception as e" around the pipeline run.
process_except(e) ==
  IF HasWord(e.msg, ApiTokens) \/ HasWord(e.msg, OpenaiTokens)
  THEN Http(500, <<"LLM API error: ">> \o e.msg)
  ELSE IF HasTimeout(e.msg) THEN Http(408, <<"Processing timeout: ">> \o e.msg)
  ELSE Http(500, <<"Processing failed: ">> \o e.msg)

\* What the file holds: nothing; white space only (pandas raises
\* EmptyDataError); text pandas cannot parse; a table without one of the
\* three columns; a table with them.
UploadContents == {"empty", "blank", "garbled", "missing_column", "ok"}
Uploads == [filename_csv : BOOLEAN, content : UploadContents]

\* The lines of process_prospects before the pipeline is built: the answer
\* they raise, NoResponse when they raise none.
validate_upload(file) ==
  IF ~file.filename_csv THEN Http(400, <<"File must be a CSV">>)
  ELSE IF file.content = "empty" THEN Http(400, <<"File is empty">>)
  ELSE IF file.content = "blank" THEN Http(400, <<"CSV file is empty or invalid">>)
  ELSE IF file.content = "garbled" THEN Http(400, <<"Invalid CSV format: ", "ParserError">>)
  ELSE IF file.content = "missing_column"
  THEN Http(400, <<"Invalid CSV format: ", "400: Missing required columns: ", "missing">>)
  ELSE NoResponse

\* Whether the temporary file was made: tempfile.NamedTemporaryFile runs
\* after the checks of the name and of the length.
TempFileMade(file) == file.filename_csv /\ file.content # "empty"

\* The environments of a request: CHUNK_SIZE unset, set to a number, or set
\* to text that is no number.
ProcessEnvs ==
  {[name \in EnvNames |-> IF name = "CHUNK_SIZE" THEN v ELSE None] :
     v \in {None, Some("2"), Some("abc")}}

\* What pipeline.process_csv_file does for a file of one prospect under cfg:
\* it returns its result, or it raises what the file, a gateway call or a
\* save raised.
PipelineOutcomes(cfg) ==
  {Ok([total_prospects |-> 1], <<>>)}
    \cup {Raise(e, <<>>) : e \in {NoValidProspects, SaveError}}
    \cup {Raise(call_research_llm(reply, Prospects(1), cfg).exc, <<>>) :
            reply \in {r \in ResearchReplies(1) :
                         ~call_research_llm(r, Prospects(1), cfg).ok}}
    \cup {Raise(call_email_llm(reply, ResearchResults(1), cfg).exc, <<>>) :
            reply \in {r \in EmailReplies(1) :
                         ~call_email_llm(r, ResearchResults(1), cfg).ok}}

\* The try block around the pipeline run: from_env, the pipeline, the answer.
run_pipeline(env, outcome) ==
  IF ~from_env(env).ok THEN process_except(from_env(env).exc)
  ELSE IF ~outcome.ok THEN process_except(outcome.exc)
  ELSE Http(200, <<"success">>)

\* The answer of process_prospects.
process_prospects(file, env, outcome) ==
  IF validate_upload(file) # NoResponse THEN validate_upload(file)
  ELSE run_pipeline(env, outcome)

ProcessStart ==
  /\ process_pc = "request"
  /\ upload \in Uploads
  /\ process_env \in ProcessEnvs
  /\ pipeline_outcome
       \in PipelineOutcomes(PipelineConfig(DefaultChunkSize, DefaultMaxRetries,
                                           DefaultTimeoutSeconds))
  /\ unlink_fails \in BOOLEAN
  /\ temp_file = "none"
  /\ http_response = NoResponse

\* process_prospects from the request to the answer, the finally block
\* included: the temporary file is unlinked when it was made, and an error of
\* os.unlink is passed over.
ProcessProspects ==
  /\ process_pc = "request"
  /\ process_pc' = "answered"
  /\ http_response' = process_prospects(upload, process_env, pipeline_outcome)
  /\ temp_file' = IF ~TempFileMade(upload) THEN "none"
                  ELSE IF unlink_fails THEN "exists" ELSE "removed"
  /\ UNCHANGED <<upload, process_env, pipeline_outcome, unlink_fails>>
  /\ UNCHANGED <<jsonVars, fieldVars, cleanVars, emailVars, runVars,
                 gwVars, promptVars, envVars, csvVars, sectionVars, rowsVars>>

-----------------------------------------------------------------------------
\* The parts of the model that a specification leaves alone.

GwIdle ==
  /\ gw_pc = "idle" /\ gw_kind = "research"
  /\ gw_config = PipelineConfig(1, DefaultMaxRetries, DefaultTimeoutSeconds)
  /\ gw_arg = <<>> /\ gw_reply = ContentReply(<<>>)
  /\ gw_out = NotCalled /\ gw_parser = NotCalled

PromptIdle ==
  /\ prompt_pc = "idle"
  /\ prompt_config = PromptConfig(FALSE, None, None)
  /\ CACHED_RESEARCH_PROMPT = <<>> /\ CACHED_EMAIL_PROMPT = <<>>
  /\ CACHED_PROMPT_LAST_FETCHED = 0
  /\ now = 0 /\ fetches = <<>> /\ system_prompts = <<>>

EnvIdle ==
  /\ env_pc = "idle" /\ environ = [name \in EnvNames |-> None] /\ from_env_out = NotCalled /\ gateway_built = FALSE

CsvIdle ==
  /\ csv_pc = "idle" /\ csv_records = <<>> /\ csv_written = <<>> /\ csv_parsed = NotCalled

SectionIdle ==
  /\ section_pc = "idle" /\ section_parts = <<>> /\ section_text = <<>>
  /\ section_out = NotCalled

RowsIdle ==
  /\ rows_pc = "idle" /\ llm_rows = <<>> /\ rows_content = <<>>
  /\ rows_prospects = <<>> /\ rows_out = NotCalled

ProcessIdle ==
  /\ process_pc = "idle" /\ upload = <<>> /\ process_env = [name \in EnvNames |-> None]
  /\ pipeline_outcome = NotCalled /\ unlink_fails = FALSE /\ temp_file = "none"
  /\ http_response = NoResponse

LaterIdle == SectionIdle /\ RowsIdle /\ ProcessIdle

\* C13: a request that runs longer than config.timeout_seconds fails with the
\* time-out failure whose message states the configured timeout_seconds; the
\* parser is not called and no record is returned.
TimedOutMessage(cfg) ==
  <<"LLM API call timed out after ", NumStr(cfg.timeout_seconds),
    " seconds. Try reducing CHUNK_SIZE or increasing TIMEOUT_SECONDS.">>

C13_TimeoutStatesBudget ==
  (gw_pc = "returned" /\ gw_reply.error.type = "APITimeoutError") =>
    /\ ~gw_out.ok
    /\ gw_out.exc.msg = TimedOutMessage(gw_config)
    /\ gw_out.value = <<>>
    /\ gw_parser = NotCalled

\* C14: a response without choices, or whose content is empty or None, fails
\* with the failure of the empty response of that call, unchanged by the
\* handler, and the parser is not called.
EmptyResponse(reply) ==
  reply.error = NoExc /\ (~reply.choices \/ reply.content.none \/ reply.content.text = <<>>)

EmptyResponseMessages(kind) ==
  IF kind = "research"
  THEN {<<"No choices returned from LLM API">>,
        <<"Empty response content from research LLM call">>}
  ELSE {<<"No choices returned from email LLM API">>,
        <<"Empty response content from email LLM call">>}

C14_EmptyResponseFails ==
  (gw_pc = "returned" /\ EmptyResponse(gw_reply)) =>
    /\ ~gw_out.ok
    /\ gw_out.exc.type = "Exception"
    /\ gw_out.exc.msg \in EmptyResponseMessages(gw_kind)
    /\ gw_out.exc.msg # TimedOutMessage(gw_config)
    /\ gw_parser = NotCalled

C14_Witness ==
  /\ gw_pc = "returned" /\ gw_kind = "email"
  /\ gw_reply = Reply(NoExc, TRUE, TRUE, <<>>)
  /\ gw_out.exc.msg = <<"Empty response content from email LLM call">>

\* C15: a failure of the parser inside a gateway call is the failure of the
\* call, with its type, message and log, and is never the time-out failure.
ParserFailed == gw_parser # NotCalled /\ ~gw_parser.ok

C15_ParserFailurePropagates ==
  (gw_pc = "returned" /\ ParserFailed) =>
    /\ gw_out = gw_parser
    /\ gw_out.exc.msg # TimedOutMessage(gw_config)

C15_Witness ==
  /\ gw_pc = "returned" /\ ParserFailed
  /\ gw_kind = "research" /\ IsJsonIncomplete(gw_out.exc)
  /\ Len(gw_arg) = 2

\* The rows of a file that hold a non-blank value for every required field,
\* trimmed, in the order of the file.
CompleteRows(kinds) ==
  LET kept == SelectSeq([j \in 1..Len(kinds) |-> j],
                        LAMBDA j : kinds[j] \in {"valid", "padded"})
  IN [a \in 1..Len(kept) |-> Prospect(kept[a])]

\* process_csv_file has returned from _read_csv_file on a file whose header
\* holds the three columns.
FileWasRead == Len(phases) >= 2 /\ phases[2] = "reading" /\ csv_file.header = "ok"

\* The run failed on str.strip called on the None of a column a row has no
\* cell for.
ReadFailedOnRow ==
  run_error = Exc("AttributeError", <<"'NoneType' object has no attribute 'strip'">>)

\* C16: _read_csv_file drops every row with a missing or blank required field,
\* a row with fewer cells than the header included, keeps the other rows in
\* the order of the file with trimmed values, and such a row never fails the
\* run.
C16_IncompleteRowsDropped ==
  (FileWasRead /\ CompleteRows(csv_file.rows) # <<>>) =>
    /\ prospects = CompleteRows(csv_file.rows)
    /\ ~ReadFailedOnRow

\* C17: _read_csv_file fails with "No valid prospects found in CSV file"
\* exactly when the header is valid and no row is kept; the run then makes no
\* gateway call and writes no file.
C17_NoValidRecordsIffNoRow ==
  FileWasRead =>
    /\ (run_error = NoValidProspects) <=> (CompleteRows(csv_file.rows) = <<>>)
    /\ (run_error = NoValidProspects) => (gateway_calls = <<>> /\ files = NoFiles)

\* The built-in prompt of a prompt type.
DefaultPrompt(prompt_type) ==
  IF prompt_type = "research" THEN RESEARCH_SYSTEM_PROMPT ELSE EMAIL_SYSTEM_PROMPT

TemplatesOn(prompt_type) ==
  /\ prompt_config.use_prompt_templates
  /\ TruthyStr(prompt_config[prompt_type \o "_prompt_fqn"])

\* C18: the template service is contacted only for a prompt type whose
\* identifier is configured while use_prompt_templates is set; a call whose
\* fetch failed still sends its request, with the built-in prompt of its type;
\* so does a call that does not contact the service for lack of a flag or
\* identifier.
C18_FetchFailureFallsBack ==
  /\ \A a \in 1..Len(fetches) : TemplatesOn(fetches[a].prompt_type)
  /\ \A a \in 1..Len(system_prompts) :
       /\ system_prompts[a].contacted => TemplatesOn(system_prompts[a].prompt_type)
       /\ system_prompts[a].sent
       /\ (system_prompts[a].failed \/ ~TemplatesOn(system_prompts[a].prompt_type)) =>
            system_prompts[a].text = DefaultPrompt(system_prompts[a].prompt_type)

C18_Witness ==
  /\ Len(system_prompts) = 3
  /\ system_prompts[1].failed /\ system_prompts[1].prompt_type = "research"
  /\ system_prompts[2].failed /\ system_prompts[2].prompt_type = "email"
  /\ system_prompts[2].text = EMAIL_SYSTEM_PROMPT
  /\ system_prompts[3].contacted /\ ~system_prompts[3].failed
  /\ system_prompts[3].text = TemplateText("research_fqn", 3)

\* C19: when TFY_API_KEY, TFY_BASE_URL or TFY_REASONING_MODEL is absent from
\* the environment, from_env fails with ConfigMissing and no gateway is built.
MissingSetting ==
  \E name \in {"TFY_API_KEY", "TFY_BASE_URL", "TFY_REASONING_MODEL"} : environ[name].none

C19_MissingSettingFails ==
  (env_pc = "loaded" /\ MissingSetting) =>
    /\ ~from_env_out.ok
    /\ from_env_out.exc.type = "ConfigMissing"
    /\ ~gateway_built

\* C20: a list of records written by _save_research_csv and read back by
\* parse_research_csv with the same prospects gives records equal to the
\* written ones field for field.
C20_CsvRoundTrip ==
  csv_pc = "parsed" =>
    /\ csv_parsed.ok
    /\ Len(csv_parsed.value) = Len(csv_records)
    /\ \A i \in 1..Len(csv_records) : \A f \in ResearchFieldSet :
         csv_parsed.value[i][f] = Some(csv_records[i][f])

-----------------------------------------------------------------------------
\* Properties of the windows and of the result of process_csv_file (checked
\* under Spec).

\* The windows passed to call_research_llm so far, in order.
Windows ==
  [a \in 1..Len(Started("research")) |-> Started("research")[a].payload]

\* C21: the windows passed to call_research_llm are contiguous and disjoint:
\* window a starts where window a-1 ended, holds between 1 and chunk_size
\* prospects, exactly chunk_size unless it is the last one, and when the run
\* returns the windows concatenated in order are the prospect list.
C21_WindowsPartitionProspects ==
  /\ \A a \in 1..Len(Windows) :
       /\ Started("research")[a].at = (a - 1) * config.chunk_size
       /\ Len(Windows[a]) \in 1..config.chunk_size
       /\ Windows[a] = SubSeq(prospects, Started("research")[a].at + 1,
                              Started("research")[a].at + Len(Windows[a]))
       /\ a < Len(Windows) => Len(Windows[a]) = config.chunk_size
  /\ run_pc = "done" => Concat(Windows) = prospects

\* C29: for every chunk_size, process_csv_file returns a success result only
\* with a research record and an e-mail record written for every surviving
\* prospect: total_prospects is the number of entries of each output.
C29_SuccessCoversEveryProspect ==
  result.returned =>
    /\ result.total_prospects = Len(prospects)
    /\ Len(files.research_csv) = result.total_prospects
    /\ Len(files.research_md) = result.total_prospects
    /\ Len(files.email_txt) = result.total_prospects

-----------------------------------------------------------------------------
\* Properties of the cache of prompt templates (checked under SpecPrompt).

\* The requests to the template service that were answered before the time t,
\* all of them or those for one prompt type, by their index in fetches.
FetchedBefore(t) == {f \in 1..Len(fetches) : fetches[f].ok /\ fetches[f].at < t}
FetchedFor(prompt_type, t) == {f \in FetchedBefore(t) : fetches[f].prompt_type = prompt_type}

Latest(F) == CHOOSE f \in F : \A g \in F : g <= f

\* Whether at time t more than the TTL has passed since the last successful
\* fetch ended, or no fetch has succeeded yet.
Expired(t) ==
  FetchedBefore(t) = {} \/ t - fetches[Latest(FetchedBefore(t))].done > Ttl

\* The requests made by the call at time t.
FetchesAt(t) == {f \in 1..Len(fetches) : fetches[f].at = t}

\* C24: a call of get_cached_prompt_template made more than the TTL after the
\* last successful fetch (or before any) issues exactly one fetch and, when the
\* service answers, returns the fetched text; a call made within the TTL
\* issues no fetch and returns the text fetched last for the requested prompt
\* type.
C24_LazyRefresh ==
  \A k \in 1..Len(system_prompts) :
    LET call == system_prompts[k]
    IN TemplatesOn(call.prompt_type) =>
         IF Expired(call.at)
         THEN /\ Cardinality(FetchesAt(call.at)) = 1
              /\ \A f \in FetchesAt(call.at) :
                   /\ fetches[f].prompt_type = call.prompt_type
                   /\ fetches[f].ok => call.text = fetches[f].text
         ELSE /\ FetchesAt(call.at) = {}
              /\ FetchedFor(call.prompt_type, call.at) # {}
              /\ call.text = fetches[Latest(FetchedFor(call.prompt_type, call.at))].text

\* C27: with templates enabled, both identifiers configured and a service
\* that answers every fetch, each research call sends the text fetched for
\* the research identifier and each e-mail call the text fetched for the
\* e-mail identifier, never an empty or never-fetched cache entry, in
\* whatever order the two are requested.
C27_PromptOfRequestedType ==
  (/\ TemplatesOn("research") /\ TemplatesOn("email")
   /\ \A f \in 1..Len(fetches) : fetches[f].ok) =>
    \A k \in 1..Len(system_prompts) :
      /\ system_prompts[k].sent
      /\ system_prompts[k].text # <<>>
      /\ \E f \in 1..Len(fetches) :
           /\ fetches[f].at <= system_prompts[k].at
           /\ fetches[f].prompt_type = system_prompts[k].prompt_type
           /\ system_prompts[k].text = fetches[f].text
           /\ system_prompts[k].text
                = TemplateText(prompt_config[system_prompts[k].prompt_type \o "_prompt_fqn"].s, f)

-----------------------------------------------------------------------------
\* Properties of parse_research_csv on CSV responses (checked under SpecRows).

\* Whether the response holds a row that makes the first reader fail, and
\* the index of the first such row.
HasSplitRow == \E j \in 1..Len(llm_rows.rows) : llm_rows.rows[j] = "split"
FirstSplitRow ==
  CHOOSE j \in 1..Len(llm_rows.rows) :
    llm_rows.rows[j] = "split" /\ \A k \in 1..(j - 1) : llm_rows.rows[k] # "split"

\* Whether data row i of the response has no cell for field f: the header
\* lacks the column, or the row ends before it.
NoCellFor(f, i) ==
  LET fields == HeaderFields(llm_rows.header)
  IN \/ \A a \in 1..Len(fields) : fields[a] # f
     \/ llm_rows.rows[i] = "short" /\ \A a \in 1..2 : fields[a] # f

\* C25: every field of every record parse_research_csv returns is a string;
\* a field whose column the row lacks, the trailing columns of a row shorter
\* than the header included, holds the default of the field ("NA" or the
\* placeholder of a narrative field); no field is null.
C25_EveryFieldIsAString ==
  (rows_pc = "returned" /\ rows_out.ok) =>
    \A i \in 1..Len(rows_out.value) : \A f \in ResearchFieldSet :
      /\ ~rows_out.value[i][f].none
      /\ (~HasSplitRow /\ NoCellFor(f, i)) =>
           rows_out.value[i][f] = Some(ResearchDefault(f, rows_prospects[i]))

IsCsvIncomplete(exc) ==
  /\ exc.type = "Exception"
  /\ Len(exc.msg) > 0
  /\ exc.msg[1] = "CSV parsing incomplete: Only "

\* C26: when the first reader fails after it read some rows and the second
\* reader succeeds, the rows paired with the prospects are the data rows of
\* the response, each once and in order (record i carries the name of data
\* row i), and a response with fewer data rows than prospects fails with the
\* incomplete-coverage failure.
C26_AlternatePassKeepsRowsAligned ==
  (rows_pc = "returned" /\ HasSplitRow /\ FirstSplitRow > 1) =>
    /\ Len(llm_rows.rows) < Len(rows_prospects) =>
         ~rows_out.ok /\ IsCsvIncomplete(rows_out.exc)
    /\ rows_out.ok =>
         \A i \in 1..Len(rows_out.value) :
           rows_out.value[i]["person_name"] = Some(<<PersonNames[i]>>)

-----------------------------------------------------------------------------
\* Properties of _split_email_content (checked under SpecEmail).

\* The texts the rendered response holds between its boundary markers, each
\* trimmed, the empty ones left out: the preamble, when there is one, and
\* the sections.
TextsBetweenMarkers ==
  StripNonEmpty((IF llm_layout.preamble THEN <<Preamble>> ELSE <<>>)
                  \o [j \in 1..Len(llm_sections) |-> SectionText(llm_sections[j], j)])

\* C22: _split_email_content takes every "PROSPECT n:" label, every "EMAIL n:"
\* label (in either case), every run of 3 or more '=' and every run of 3 or
\* more '-' as a section boundary, and discards the sections that are empty
\* after trimming: it returns the trimmed non-empty texts between the
\* markers, in order.
C22_EveryMarkerSplits ==
  email_pc = "returned" => _split_email_content(email_content) = TextsBetweenMarkers

\* The trimmed non-empty texts that follow the boundary markers of the
\* rendered response, in order: the sections, without the preamble.
MarkedSections ==
  StripNonEmpty([j \in 1..Len(llm_sections) |-> SectionText(llm_sections[j], j)])

\* C28: when parse_email_response returns, record i is built from the text
\* that follows the i-th boundary marker (the i-th marked section): text that
\* stands before the first marker is assigned to no record and shifts no
\* section onto another prospect.
C28_RecordFromItsMarkedSection ==
  (email_pc = "returned" /\ email_out.ok) =>
    \A i \in 1..Len(email_out.value) :
      /\ i <= Len(MarkedSections)
      /\ email_out.value[i] = _parse_email_section(MarkedSections[i], research_in[i])

-----------------------------------------------------------------------------
\* Properties of _parse_email_section (checked under SpecSection).

HasLabel(labels) == \E a \in 1..Len(section_text) : section_text[a] \in labels

\* The text of the section after its first label of labels, up to the first
\* label of stops after it or to the end of the section, trimmed.
TextBetween(labels, stops) ==
  LET l == CHOOSE a \in 1..Len(section_text) :
             section_text[a] \in labels /\ \A b \in 1..(a - 1) : section_text[b] \notin labels
      after == {e \in (l + 1)..Len(section_text) : section_text[e] \in stops}
      stop == IF after = {} THEN Len(section_text) + 1
              ELSE CHOOSE e \in after : \A d \in after : e <= d
  IN Strip(SubSeq(section_text, l + 1, stop - 1))

\* The text of the section from its first greeting to its end, trimmed.
TextFromGreeting ==
  LET l == CHOOSE a \in 1..Len(section_text) :
             section_text[a] \in HiGreetings
               /\ \A b \in 1..(a - 1) : section_text[b] \notin HiGreetings
  IN Strip(SubSeq(section_text, l, Len(section_text)))

\* Whether text stands in the section as it is.
TakenFromSection(text) ==
  \E a \in 1..(Len(section_text) + 1) :
    /\ a + Len(text) - 1 <= Len(section_text)
    /\ SubSeq(section_text, a, a + Len(text) - 1) = text

\* C23: message 1 is the text after the "message 1" label up to a "message 2"
\* label or the end of the section; only without that label, the text of the
\* "Part 2: LinkedIn DM" block; only without that one too, the paragraph that
\* begins with "Hi "; it is trimmed, and it is text of the section, never
\* text the parser made up.
C23_Message1ByPrecedence ==
  section_pc = "returned" =>
    /\ section_out.email_body_msg1 = Strip(section_out.email_body_msg1)
    /\ TakenFromSection(section_out.email_body_msg1)
    /\ HasLabel(Msg1Labels) =>
         section_out.email_body_msg1 = TextBetween(Msg1Labels, Msg2Labels)
    /\ (~HasLabel(Msg1Labels) /\ HasLabel(Part2Labels)) =>
         section_out.email_body_msg1 = TextBetween(Part2Labels, Part3Labels)
    /\ (~HasLabel(Msg1Labels) /\ ~HasLabel(Part2Labels) /\ HasLabel(HiGreetings)) =>
         section_out.email_body_msg1 = TextFromGreeting

\* The pipeline ran in the request: the upload passed its checks and
\* from_env returned a configuration.
PipelineRan == validate_upload(upload) = NoResponse /\ from_env(process_env).ok

\* The pipeline run failed with the failure the gateway handler raises for a
\* time-out.
FailedWithGatewayTimeout ==
  /\ PipelineRan
  /\ ~pipeline_outcome.ok
  /\ pipeline_outcome.exc.msg = TimedOutMessage(from_env(process_env).value)

\* C30: when the pipeline run inside /process fails with the gateway's
\* time-out failure the endpoint answers with status 408, and on every
\* outcome the temporary file of the upload is removed.
C30_TimeoutAnswers408 ==
  process_pc = "answered" =>
    /\ FailedWithGatewayTimeout => http_response.status_code = 408
    /\ temp_file # "exists"

\* The specifications.
-----------------------------------------------------------------------------

\* parse_research_json on rendered responses.
InitJson == JsonStart /\ FieldIdle /\ CleanIdle /\ EmailIdle /\ RunIdle
  /\ GwIdle /\ PromptIdle /\ EnvIdle /\ CsvIdle /\ LaterIdle
NextJson == ParseResearchJson
SpecJson == InitJson /\ [][NextJson]_vars

\* _create_research_from_json on small objects.
InitField == FieldStart /\ JsonIdle /\ CleanIdle /\ EmailIdle /\ RunIdle
  /\ GwIdle /\ PromptIdle /\ EnvIdle /\ CsvIdle /\ LaterIdle
NextField == CreateResearchFromJson
SpecField == InitField /\ [][NextField]_vars

\* _clean_json_content and parse_research_json on short texts.
InitClean == CleanStart /\ JsonIdle /\ FieldIdle /\ EmailIdle /\ RunIdle
  /\ GwIdle /\ PromptIdle /\ EnvIdle /\ CsvIdle /\ LaterIdle
NextClean == CleanJsonContent \/ ParsePlain \/ ParseWrapped
SpecClean == InitClean /\ [][NextClean]_vars


InitEmail == EmailStart /\ JsonIdle /\ FieldIdle /\ CleanIdle /\ RunIdle
  /\ GwIdle /\ PromptIdle /\ EnvIdle /\ CsvIdle /\ LaterIdle
NextEmail == ParseEmailResponse
SpecEmail == InitEmail /\ [][NextEmail]_vars


\* One gateway call on every reply of the client.
InitGateway == GatewayStart /\ JsonIdle /\ FieldIdle /\ CleanIdle /\ EmailIdle /\ RunIdle
  /\ PromptIdle /\ EnvIdle /\ CsvIdle /\ LaterIdle
NextGateway == GatewayCall
SpecGateway == InitGateway /\ [][NextGateway]_vars

\* Calls of the two prompt functions in any order, at any distance in time,
\* with a template service that answers or fails.
InitPrompt == PromptStart /\ JsonIdle /\ FieldIdle /\ CleanIdle /\ EmailIdle /\ RunIdle
  /\ GwIdle /\ EnvIdle /\ CsvIdle /\ LaterIdle
NextPrompt == ResearchPromptCall \/ EmailPromptCall
SpecPrompt == InitPrompt /\ [][NextPrompt]_vars

\* The construction of the pipeline in every environment.
InitEnv == EnvStart /\ JsonIdle /\ FieldIdle /\ CleanIdle /\ EmailIdle /\ RunIdle
  /\ GwIdle /\ PromptIdle /\ CsvIdle /\ LaterIdle
NextEnv == PipelineInit
SpecEnv == InitEnv /\ [][NextEnv]_vars

\* Lists of records written to a file and read back.
InitCsv == CsvStart /\ JsonIdle /\ FieldIdle /\ CleanIdle /\ EmailIdle /\ RunIdle
  /\ GwIdle /\ PromptIdle /\ EnvIdle /\ LaterIdle
NextCsv == SaveResearchCsv \/ ParseResearchCsv
SpecCsv == InitCsv /\ [][NextCsv]_vars

\* _parse_email_section on every section.
InitSection == SectionStart /\ JsonIdle /\ FieldIdle /\ CleanIdle /\ EmailIdle /\ RunIdle
  /\ GwIdle /\ PromptIdle /\ EnvIdle /\ CsvIdle /\ RowsIdle /\ ProcessIdle
NextSection == ParseEmailSection
SpecSection == InitSection /\ [][NextSection]_vars

\* parse_research_csv on every rendered CSV response.
InitRows == RowsStart /\ JsonIdle /\ FieldIdle /\ CleanIdle /\ EmailIdle /\ RunIdle
  /\ GwIdle /\ PromptIdle /\ EnvIdle /\ CsvIdle /\ SectionIdle /\ ProcessIdle
NextRows == ParseResearchCsvResponse
SpecRows == InitRows /\ [][NextRows]_vars

\* POST /process on every upload, environment and pipeline outcome.
InitProcess == ProcessStart /\ JsonIdle /\ FieldIdle /\ CleanIdle /\ EmailIdle /\ RunIdle
  /\ GwIdle /\ PromptIdle /\ EnvIdle /\ CsvIdle /\ SectionIdle /\ RowsIdle
NextProcess == ProcessProspects
SpecProcess == InitProcess /\ [][NextProcess]_vars

\* process_csv_file on every file, configuration and reply.
Init == RunStart /\ JsonIdle /\ FieldIdle /\ CleanIdle /\ EmailIdle
  /\ GwIdle /\ PromptIdle /\ EnvIdle /\ CsvIdle /\ LaterIdle
Next == StartRun \/ ResearchReturns \/ EmailReturns
Spec == Init /\ [][Next]_vars

====
